---- MODULE Spec2Model ----
(***************************************************************************)
(* Model of the bible.com scraper (src/index.ts): the chapter walk of      *)
(* BibleScraper.processChapterContent with processHeading, processVerse    *)
(* and finalizeVerse, the chapter loop of processBook that feeds it, and   *)
(* the pure helpers of BibleScraperUtils; processBook behind its retry     *)
(* with navigateToNextChapter and finalizeBooksResults; the worker pool of *)
(* scrapeAllBooks with saveResults; retryOperation; the constructor's      *)
(* validateConfig; ResourceManager.gracefulShutdown; and the chunked main  *)
(* of src/index_backup.ts.                                                 *)
(*                                                                         *)
(* JavaScript strings are sequences of one-character strings, so that      *)
(* trim, split, join, replaceAll, padStart and toUpperCase are computed    *)
(* the way the code computes them.                                         *)
(***************************************************************************)
EXTENDS Integers, Sequences, FiniteSets, TLC

(***************************************************************************)
(* Bounds of the model.                                                    *)
(***************************************************************************)
\* chapter pages visited for one book
MaxChapters == 2
\* DOM nodes read for one book: the top-level groups (div/table children) of
\* its chapter containers and the inline spans of the groups
MaxNodes == 4
\* length of the strings cleanText is applied to
MaxLen == 5

VARIABLES
  pc,                        \* position in processBook / processChapterContent
  bookNumber,                \* processBook's bookNumber
  pages,                     \* chapter tokens of the book's pages, in site order
  chapterIdx,                \* number of chapter pages visited so far
  currentChapter,            \* processBook's currentChapter
  currentChapterString,      \* processBook's currentChapterString
  bookResult,                \* processBook's bookResult
  nGroups,                   \* chapterChildren.length
  i,                         \* index of the current top-level group
  topParentClassType,        \* class of the current top-level group
  nSpans,                    \* ccSpans.length
  j,                         \* index of the current span
  lastVerseUsfm,
  lastVerseLabel,
  resultVerse,
  saveHeaders,
  chapterVerseOrderCounter,
  headerOrderCounter,
  hist,                      \* history: the spans read so far in this chapter
  groupTypes,                \* history: the classes of this chapter's groups
  chapterBase,               \* history: Len(bookResult.verses) at chapter start
  dropped,                   \* history: headings pending at the last walk's end
  nodesUsed,                 \* DOM nodes read over the whole book (for MaxNodes)
  ct_in,                     \* cleanText: the input string
  ct_out,                    \* cleanText: results of successive applications
  nodeBound,                 \* the number of DOM nodes the book may have
  bpc,                       \* position in processBookWithRetry / processBook
  lastPartOfUrl,             \* last path segment of the URL the tab is on
  expectedChapterCount,      \* processBook's expectedChapterCount (0: undefined)
  chaptersProcessed,         \* processBook's chaptersProcessed
  retryAttempts,             \* config.retryAttempts of processBookWithRetry
  bookAttempt,               \* retryOperation's attempt around processBook
  discarded,                 \* history: records pushed by attempts that threw
  emitted,                   \* history: per parsed page, chapter and records pushed
  opened,                    \* history: the pages the loop opened, what became of each, how it was left
  r_maxRetries,              \* retryOperation: maxRetries
  r_delay,                   \* retryOperation: delay
  r_attempt,                 \* retryOperation: attempt
  r_pc,                      \* retryOperation: position
  r_log,                     \* history: outcome of each invocation of operation
  r_result,                  \* retryOperation: value returned or error thrown
  r_waits,                   \* history: the delays waited between attempts
  config,                    \* scrapeAllBooks: this.config
  nBooks,                    \* scrapeAllBooks: booksToProcess.length
  poolPc,                    \* scrapeAllBooks: position of the main flow
  bookIndex,                 \* scrapeAllBooks: the shared queue cursor
  completedCount,            \* scrapeAllBooks: completedCount
  processResults,            \* scrapeAllBooks: processResults
  workers,                   \* per tab: position and locals of processNextBook
  claims,                    \* history: [tab, index] of every index taken
  failedBooks,               \* history: the books sent to the catch block, and by what
  completed,                 \* history: book numbers in the order they completed
  finalResult,               \* saveResults: the consolidated verse list
  cvCount,                   \* saveResults: cv_count per book number
  cfg_in,                    \* constructor: the config argument
  cfg_state,                 \* constructor: "new", "rejected" or "constructed"
  cfg_out,                   \* constructor: this.config
  id_book,                   \* getVerseId: book
  id_a,                      \* getVerseId: a (chapter, order) pair
  id_b,                      \* getVerseId: another (chapter, order) pair
  id_out,                    \* getVerseId: the ids of id_a and id_b
  gn_in,                     \* getNumberFromChapter: the chapter token
  gn_out,                    \* getNumberFromChapter: results
  hc_in,                     \* isHeadingTopContainer: the class of a group
  hc_out,                    \* isHeadingTopContainer: results
  ck_n,                      \* index_backup main: generatedBookList.length
  ck_i,                      \* index_backup main: i of the loop over chunks
  ck_pc,                     \* index_backup main: position of the main flow
  ck_promise,                \* per book number: the state of its chunk promise
  ck_results,                \* index_backup main: book numbers in results
  ck_files,                  \* history: book numbers whose file was written
  ck_final,                  \* history: the consolidated outputs were written
  ck_browser,                \* index_backup main: the browser, open or closed
  sd_flag,                   \* ResourceManager: isShuttingDown
  sd_pages,                  \* ResourceManager: per page of pages, its state
  sd_pageCloses,             \* history: per page, the calls of page.close()
  sd_browserCloses,          \* history: the calls of browser.close()
  sd_calls,                  \* per call of gracefulShutdown, its position
  sd_exited,                 \* process.exit has been called
  sd_browser                 \* ResourceManager: browser, "none" when null

walkVars == <<pc, bookNumber, pages, chapterIdx, currentChapter,
              currentChapterString, bookResult, nGroups, i, topParentClassType,
              nSpans, j, lastVerseUsfm, lastVerseLabel, resultVerse, saveHeaders,
              chapterVerseOrderCounter, headerOrderCounter, hist, groupTypes,
              chapterBase, dropped, nodesUsed>>
cleanVars == <<ct_in, ct_out>>
bookVars == <<nodeBound, bpc, lastPartOfUrl, expectedChapterCount,
              chaptersProcessed, retryAttempts, bookAttempt, discarded, emitted,
              opened>>
retryVars == <<r_maxRetries, r_delay, r_attempt, r_pc, r_log, r_result, r_waits>>
poolVars == <<config, nBooks, poolPc, bookIndex, completedCount, processResults,
              workers, claims, failedBooks, completed, finalResult, cvCount>>
configVars == <<cfg_in, cfg_state, cfg_out>>
idVars == <<id_book, id_a, id_b, id_out>>
chapterVars == <<gn_in, gn_out>>
containerVars == <<hc_in, hc_out>>
chunkVars == <<ck_n, ck_i, ck_pc, ck_promise, ck_results, ck_files, ck_final,
               ck_browser>>
shutdownVars == <<sd_flag, sd_pages, sd_pageCloses, sd_browserCloses, sd_calls,
                  sd_exited, sd_browser>>
restVars == <<retryVars, poolVars, configVars, idVars, chapterVars,
              containerVars, chunkVars, shutdownVars>>
vars == <<walkVars, cleanVars, bookVars, restVars>>

(***************************************************************************)
(* Strings.                                                                *)
(***************************************************************************)
\* the whitespace characters of the alphabet (JavaScript \s and trim())
WhiteSpace == {" ", "\n"}

Last(s) == s[Len(s)]

RECURSIVE TrimStart(_)
TrimStart(s) ==
  IF s # <<>> /\ Head(s) \in WhiteSpace THEN TrimStart(Tail(s)) ELSE s

RECURSIVE TrimEnd(_)
TrimEnd(s) ==
  IF s # <<>> /\ Last(s) \in WhiteSpace
    THEN TrimEnd(SubSeq(s, 1, Len(s) - 1))
    ELSE s

\* String.prototype.trim
Trim(s) == TrimEnd(TrimStart(s))

\* String.prototype.split(/[\s]+/): the pieces between maximal whitespace runs
RECURSIVE SplitFrom(_, _, _, _)
SplitFrom(s, k, cur, out) ==
  IF k > Len(s) THEN Append(out, cur)
  ELSE IF s[k] \in WhiteSpace
    THEN IF k > 1 /\ s[k - 1] \in WhiteSpace
           THEN SplitFrom(s, k + 1, cur, out)
           ELSE SplitFrom(s, k + 1, <<>>, Append(out, cur))
    ELSE SplitFrom(s, k + 1, Append(cur, s[k]), out)

SplitWhiteSpace(s) == SplitFrom(s, 1, <<>>, <<>>)

\* Array.prototype.join
RECURSIVE Join(_, _)
Join(parts, sep) ==
  IF parts = <<>> THEN <<>>
  ELSE IF Len(parts) = 1 THEN parts[1]
  ELSE parts[1] \o sep \o Join(Tail(parts), sep)

IsPrefix(p, s) == Len(p) <= Len(s) /\ SubSeq(s, 1, Len(p)) = p

\* String.prototype.replaceAll(pat, rep): left to right, non-overlapping
RECURSIVE ReplaceAll(_, _, _)
ReplaceAll(s, pat, rep) ==
  IF s = <<>> THEN <<>>
  ELSE IF IsPrefix(pat, s)
    THEN rep \o ReplaceAll(SubSeq(s, Len(pat) + 1, Len(s)), pat, rep)
    ELSE <<Head(s)>> \o ReplaceAll(Tail(s), pat, rep)

\* String.prototype.replace(pat, rep) with a string pattern: first match only
RECURSIVE ReplaceFirst(_, _, _)
ReplaceFirst(s, pat, rep) ==
  IF s = <<>> THEN <<>>
  ELSE IF IsPrefix(pat, s)
    THEN rep \o SubSeq(s, Len(pat) + 1, Len(s))
    ELSE <<Head(s)>> \o ReplaceFirst(Tail(s), pat, rep)

UpperChar(c) ==
  CASE c = "a" -> "A"
    [] c = "b" -> "B"
    [] c = "h" -> "H"
    [] OTHER -> c

\* String.prototype.toUpperCase
toUpperCase(s) == [k \in 1..Len(s) |-> UpperChar(s[k])]

Contains(s, pat) ==
  \E k \in 1..(Len(s) - Len(pat) + 1) : SubSeq(s, k, k + Len(pat) - 1) = pat

(***************************************************************************)
(* BibleScraperUtils.cleanText                                             *)
(***************************************************************************)
cleanTextFirstOnly(text) ==
  ReplaceFirst(
    ReplaceFirst(Join(SplitWhiteSpace(Trim(text)), <<" ">>), <<" ", ".">>, <<".">>),
    <<" ", ",">>, <<",">>)

cleanText(text) ==
  ReplaceAll(
    ReplaceAll(Join(SplitWhiteSpace(Trim(text)), <<" ">>), <<" ", ".">>, <<".">>),
    <<" ", ",">>, <<",">>)

(***************************************************************************)
(* Numbers and their decimal strings.                                      *)
(***************************************************************************)
DigitChars == <<"0", "1", "2", "3", "4", "5", "6", "7", "8", "9">>

IsDigit(c) == \E d \in 1..Len(DigitChars) : DigitChars[d] = c

DigitVal(c) == (CHOOSE d \in 1..Len(DigitChars) : DigitChars[d] = c) - 1

RECURSIVE DigitsValue(_, _)
DigitsValue(s, acc) ==
  IF s = <<>> THEN acc ELSE DigitsValue(Tail(s), acc * 10 + DigitVal(Head(s)))

\* Number(string) for strings of digits and "_": the empty string is 0, a
\* string of digits is its value, anything else is NaN (written -1 here)
Number(s) ==
  IF s = <<>> THEN 0
  ELSE IF \A k \in 1..Len(s) : IsDigit(s[k]) THEN DigitsValue(s, 0)
  ELSE -1

\* String(number) for the values Number yields
RECURSIVE String(_)
String(n) ==
  IF n < 0 THEN <<"N", "a", "N">>
  ELSE IF n < 10 THEN <<DigitChars[n + 1]>>
  ELSE String(n \div 10) \o <<DigitChars[(n % 10) + 1]>>

\* String.prototype.padStart(len, "0")
padStart(s, len) ==
  IF Len(s) >= len THEN s ELSE [k \in 1..(len - Len(s)) |-> "0"] \o s

\* String.prototype.split(sep) with a one-character separator
RECURSIVE SplitOnFrom(_, _, _, _, _)
SplitOnFrom(s, sep, k, cur, out) ==
  IF k > Len(s) THEN Append(out, cur)
  ELSE IF s[k] = sep THEN SplitOnFrom(s, sep, k + 1, <<>>, Append(out, cur))
  ELSE SplitOnFrom(s, sep, k + 1, Append(cur, s[k]), out)

SplitOn(s, sep) == SplitOnFrom(s, sep, 1, <<>>, <<>>)

(***************************************************************************)
(* BibleScraperUtils.getVerseId, getNumberFromChapter,                     *)
(* isHeadingTopContainer                                                   *)
(***************************************************************************)
getVerseIdUnpadded(book, chapter, order) ==
  String(book) \o String(chapter) \o String(order)

getVerseId(book, chapter, order) ==
  String(book) \o padStart(String(chapter), 3) \o padStart(String(order), 3)

\* positions of an underscore with a digit on both sides: where
\* /(\d+)_(\d+)/ can match
ExtraChapterAt(input) ==
  {k \in 2..(Len(input) - 1) :
     input[k] = "_" /\ IsDigit(input[k - 1]) /\ IsDigit(input[k + 1])}

\* the maximal run of digits of input that ends at position k
RECURSIVE DigitRunBefore(_, _)
DigitRunBefore(input, k) ==
  IF k >= 1 /\ IsDigit(input[k])
    THEN Append(DigitRunBefore(input, k - 1), input[k])
    ELSE <<>>

Min(S) == CHOOSE x \in S : \A y \in S : x <= y

getNumberFromChapterWhole(input) == Number(input)

getNumberFromChapter(input) ==
  IF ExtraChapterAt(input) # {}
    THEN Number(DigitRunBefore(input, Min(ExtraChapterAt(input)) - 1))
    ELSE Number(input)

\* the fixed text of each pattern; the optional (\d+)? never decides a test
headingPatterns ==
  << <<"m", "t">>, <<"m", "t", "e">>, <<"m", "s">>, <<"m", "r">>, <<"s">>,
     <<"s", "r">>, <<"r">>, <<"d">>, <<"s", "p">>, <<"s", "d">> >>

\* the patterns are not anchored: RegExp.test finds them anywhere in input
isHeadingTopContainer(input) ==
  \E p \in 1..Len(headingPatterns) : Contains(input, headingPatterns[p])

(***************************************************************************)
(* The rendered pages handed to the parser.                                *)
(*                                                                         *)
(* A span is [cls, usfm, text, body, n, g]: its cleaned class, its         *)
(* data-usfm attribute (<<>> when absent), its textContent, its child      *)
(* spans [cls, text]; n and g are history (the span's position in the      *)
(* chapter and its group), filled in when the span is read.                *)
(***************************************************************************)
\* chapter tokens of a book's pages: plain ("1", "2", ..) or compound
\* ("1_1", "1_2", ..)
PlainPages == [k \in 1..MaxChapters |-> String(k)]
CompoundPages == [k \in 1..MaxChapters |-> <<"1", "_">> \o String(k)]
PageLists == {PlainPages, CompoundPages}

BookNumbers == {1}

\* classes of the top-level groups: paragraph, section heading, blank paragraph
TopTypes == {<<"p">>, <<"s">>, <<"b">>}

Usfm(chapterToken, verseToken) ==
  <<"B", ".">> \o chapterToken \o <<".">> \o verseToken

Child(cls, text) == [cls |-> cls, text |-> text]

PlainBody == <<Child("content", <<"a">>)>>
LabelABody == <<Child("label", <<"a">>), Child("content", <<"a">>)>>
LabelBBody ==
  <<Child("label", <<"b">>), Child("note", <<"a">>), Child("nd", <<"b">>),
    Child("content", <<" ", ".">>)>>

Span(cls, usfm, text, body) ==
  [cls |-> cls, usfm |-> usfm, text |-> text, body |-> body, n |-> 0, g |-> 0]

HeadingSpans ==
  {Span("heading", <<>>, <<"h">>, <<>>), Span("nd", <<>>, <<"h">>, <<>>),
   Span("heading", <<>>, <<>>, <<>>)}

\* a span that is neither heading, nd nor verse
OtherSpans == {Span("note", <<>>, <<"a">>, <<>>)}

VerseSpans(chapterToken) ==
  {Span("verse", <<>>, <<>>, PlainBody)}
    \cup {Span("verse", Usfm(chapterToken, <<"4">>), <<>>, b) :
            b \in {PlainBody, LabelABody, LabelBBody}}
    \cup {Span("verse", Usfm(chapterToken, <<"5">>), <<>>, PlainBody)}

(***************************************************************************)
(* BibleScraper.processHeading                                             *)
(***************************************************************************)
\* the index of the last item whose target_order is one of targets
FindHeaderLast(headers, targets) ==
  LET found == {k \in 1..Len(headers) : headers[k].target_order \in targets}
  IN IF found = {} THEN 0 ELSE CHOOSE k \in found : \A m \in found : m <= k

\* Array.prototype.find on saveHeaders: the index of the first item whose
\* target_order is one of targets, 0 when there is none
FindHeader(headers, targets) ==
  IF \E k \in 1..Len(headers) : headers[k].target_order \in targets
    THEN Min({k \in 1..Len(headers) : headers[k].target_order \in targets})
    ELSE 0

headingTargetOrderSame(counter) == counter

headingTargetOrder(counter) == counter + 1

\* returns saveHeaders as processHeading leaves it
processHeading(ccsp, parentVersesType, headers, counter) ==
  LET getHeadingText == ccsp.text
      targetOrder == headingTargetOrder(counter)
      headersExist == FindHeader(headers, {targetOrder})
      text == IF parentVersesType = "nd"
                THEN toUpperCase(getHeadingText)
                ELSE getHeadingText
  IN IF getHeadingText = <<>> THEN headers
     ELSE IF headersExist # 0
       THEN [headers EXCEPT ![headersExist].text = @ \o text,
                            ![headersExist].src = Append(@, ccsp.n)]
       ELSE Append(headers,
                   [target_order |-> targetOrder, text |-> text,
                    src |-> <<ccsp.n>>])

(***************************************************************************)
(* BibleScraper.processVerse and finalizeVerse                             *)
(*                                                                         *)
(* A verse record is [id, b, c, v, t, h, o, l] as in the code, with the    *)
(* history fields fr (the spans accumulated into t), hf and ht (the        *)
(* heading spans attached and the target order they were pending for)      *)
(* and by (the method that pushed the record).                             *)
(***************************************************************************)
\* the first non-empty label among the child spans
RECURSIVE FirstLabel(_)
FirstLabel(body) ==
  IF body = <<>> THEN <<>>
  ELSE IF Head(body).cls = "label" /\ Head(body).text # <<>>
    THEN Head(body).text
    ELSE FirstLabel(Tail(body))

shouldCreateNewVerseUsfmOnly(verseUsfm, lastUsfm, currentLabel, lastLabel) ==
  lastUsfm # <<>> /\ verseUsfm # lastUsfm

shouldCreateNewVerse(verseUsfm, lastUsfm, currentLabel, lastLabel) ==
  /\ lastUsfm # <<>>
  /\ \/ verseUsfm # lastUsfm
     \/ /\ verseUsfm = lastUsfm
        /\ currentLabel # <<>>
        /\ currentLabel # lastLabel

spliceHeaderKeep(headers, k) == headers

\* saveHeaders.splice(saveHeaders.indexOf(headersExist), 1)
spliceHeader(headers, k) ==
  SubSeq(headers, 1, k - 1) \o SubSeq(headers, k + 1, Len(headers))

\* a content loop that appends the text of every child after a space
RECURSIVE processContentAll(_, _)
processContentAll(verse, body) ==
  IF body = <<>> THEN verse
  ELSE processContentAll([verse EXCEPT !.t = @ \o <<" ">> \o Head(body).text],
                         Tail(body))

\* the content loop of processVerse over the child spans
RECURSIVE processContent(_, _)
processContent(verse, body) ==
  IF body = <<>> THEN verse
  ELSE LET child == Head(body)
           next ==
             IF child.cls = "label"
               THEN IF child.text # <<>>
                      THEN [verse EXCEPT !.l = child.text]
                      ELSE verse
             ELSE IF child.cls # "note" /\ child.text # <<>>
               THEN IF child.cls \in {"nd", "sc"}
                      THEN [verse EXCEPT !.t = @ \o toUpperCase(child.text)]
                      ELSE [verse EXCEPT !.t = @ \o <<" ">> \o child.text]
             ELSE verse
       IN processContent(next, Tail(body))

\* the record pushed for verse at order, with the pending heading at index k
\* of headers (none when k = 0)
PushedVerse(verse, headers, k, book, order, by) ==
  [verse EXCEPT
     !.b = book,
     !.o = order,
     !.id = getVerseId(book, verse.c, order),
     !.t = cleanText(verse.t),
     !.h = IF k # 0 THEN Trim(headers[k].text) ELSE @,
     !.hf = IF k # 0 THEN headers[k].src ELSE <<>>,
     !.ht = IF k # 0 THEN headers[k].target_order ELSE 0,
     !.by = by]

\* the scratch verse after a push: h and t are reset, the rest is kept
ResetVerse(pushed) ==
  [pushed EXCEPT !.h = <<>>, !.t = <<>>, !.fr = <<>>, !.hf = <<>>, !.ht = 0,
                 !.by = ""]

\* a push of the scratch object itself: every element of verses is that one
\* object, in the state it has at the push
pushShared(verses, pushed) == [k \in 1..(Len(verses) + 1) |-> pushed]

\* bookResult.verses.push(structuredClone(resultVerse))
pushClone(verses, pushed) == Append(verses, pushed)

\* the parts of the last sub-reference of a reference joined with "+"
vusplitLast(verseUsfm) ==
  LET subs == SplitOn(verseUsfm, "+") IN SplitOn(subs[Len(subs)], ".")

\* verseUsfm.replaceAll("+", ".").split(".")
vusplit(verseUsfm) == SplitOn(ReplaceAll(verseUsfm, <<"+">>, <<".">>), ".")

\* a span without a reference taken for the start of a verse
noReferenceCounted(lastUsfm, lastLabel, verse, headers, verseCounter, headerCounter, result) ==
  [newVerse |-> TRUE, verseUsfm |-> lastUsfm, verseLabel |-> <<>>,
   chapterVerseOrderCounter |-> verseCounter + 1,
   headerOrderCounter |-> headerCounter + 1,
   resultVerse |-> verse, saveHeaders |-> headers, bookResult |-> result]

\* the early return of processVerse for a span without data-usfm
noReference(lastUsfm, lastLabel, verse, headers, verseCounter, headerCounter, result) ==
  [newVerse |-> FALSE, verseUsfm |-> lastUsfm, verseLabel |-> lastLabel,
   chapterVerseOrderCounter |-> verseCounter,
   headerOrderCounter |-> headerCounter,
   resultVerse |-> verse, saveHeaders |-> headers, bookResult |-> result]

\* a header counter that moves only when a new verse is created
nextHeaderOrderOnCreate(headerCounter, firstVerse, create) ==
  IF create THEN headerCounter + 1 ELSE headerCounter

\* headerOrderCounter += 1 at the first verse of the chapter and at every
\* new verse
nextHeaderOrder(headerCounter, firstVerse, create) ==
  IF firstVerse \/ create THEN headerCounter + 1 ELSE headerCounter

\* returns the values processVerse returns and the objects it mutates
processVerse(ccsp, lastUsfm, lastLabel, verse, headers, verseCounter, headerCounter, book, result) ==
  LET verseUsfm == ccsp.usfm
  IN IF verseUsfm = <<>>
       THEN noReference(lastUsfm, lastLabel, verse, headers, verseCounter,
                        headerCounter, result)
       ELSE
         LET currentLabel == FirstLabel(ccsp.body)
             firstVerse == lastUsfm = <<>>
             create == shouldCreateNewVerse(verseUsfm, lastUsfm, currentLabel,
                                            lastLabel)
             order == IF create THEN verseCounter + 1 ELSE verseCounter
             hcount == nextHeaderOrder(headerCounter, firstVerse, create)
             headersExist == FindHeader(headers, {order})
             pushed == PushedVerse(verse, headers, headersExist, book, order,
                                   "processVerse")
             verse1 == IF create THEN ResetVerse(pushed) ELSE verse
             headers1 == IF create /\ headersExist # 0
                           THEN spliceHeader(headers, headersExist)
                           ELSE headers
             result1 == IF create
                          THEN [result EXCEPT !.verses = pushClone(@, pushed)]
                          ELSE result
             lastLabel1 == IF firstVerse \/ create THEN currentLabel ELSE lastLabel
             verse2 == [verse1 EXCEPT
                          !.c = getNumberFromChapter(vusplit(verseUsfm)[2]),
                          !.v = Number(vusplit(verseUsfm)[3]),
                          !.fr = Append(@, ccsp.n)]
         IN [newVerse |-> TRUE, verseUsfm |-> verseUsfm,
             verseLabel |-> IF currentLabel # <<>> THEN currentLabel ELSE lastLabel1,
             chapterVerseOrderCounter |-> order,
             headerOrderCounter |-> hcount,
             resultVerse |-> processContent(verse2, ccsp.body),
             saveHeaders |-> headers1, bookResult |-> result1]

\* returns the objects finalizeVerse mutates
finalizeVerse(verse, headers, order, book, chapter, result) ==
  LET key == result.cv_v_key
      key1 == IF chapter \in DOMAIN key
                THEN [key EXCEPT ![chapter] = @ + order]
                ELSE [c \in DOMAIN key \cup {chapter} |->
                        IF c = chapter THEN order ELSE key[c]]
      headersExist == FindHeader(headers, {order, order + 1})
      pushed == PushedVerse(verse, headers, headersExist, book, order,
                            "finalizeVerse")
  IN [resultVerse |-> ResetVerse(pushed),
      saveHeaders |-> IF headersExist # 0
                        THEN spliceHeader(headers, headersExist)
                        ELSE headers,
      bookResult |-> [result EXCEPT !.verses = pushClone(@, pushed),
                                    !.cv_v_key = key1]]

(***************************************************************************)
(* BibleScraper.processBook (the chapter loop) and processChapterContent   *)
(***************************************************************************)
NewVerse(book) ==
  [id |-> <<>>, b |-> book, c |-> 0, v |-> 0, t |-> <<>>, h |-> <<>>, o |-> 0,
   l |-> <<>>, fr |-> <<>>, hf |-> <<>>, ht |-> 0, by |-> ""]

\* a result object that outlives the call of processBook
bookResultKept(left) == left

\* a buffer of pending headings that outlives the chapter walk
saveHeadersCarried(left) == left

\* let saveHeaders: HeaderItem[] = [], whatever the walk before it left
saveHeadersAtStart(left) == <<>>

NewBookResult ==
  [verses |-> <<>>, cv_count |-> [c |-> 0, v |-> <<>>], cv_v_key |-> <<>>]

\* const bookResult: BookResult = {...}, whatever an earlier call left
bookResultAtStart(left) == NewBookResult

InitWalkOn(pageLists) ==
  /\ pc = "book"
  /\ bookNumber \in BookNumbers
  /\ pages \in pageLists
  /\ chapterIdx = 0
  /\ currentChapter = 0
  /\ currentChapterString = <<"0">>
  /\ bookResult = NewBookResult
  /\ nGroups = 0
  /\ i = 0
  /\ topParentClassType = <<>>
  /\ nSpans = 0
  /\ j = 0
  /\ lastVerseUsfm = <<>>
  /\ lastVerseLabel = <<>>
  /\ resultVerse = NewVerse(bookNumber)
  /\ saveHeaders = <<>>
  /\ chapterVerseOrderCounter = 0
  /\ headerOrderCounter = 0
  /\ hist = <<>>
  /\ groupTypes = <<>>
  /\ chapterBase = 0
  /\ dropped = <<>>
  /\ nodesUsed = 0

InitWalk == InitWalkOn(PageLists)

\* processBook reads the chapter token of the page it is on and hands the
\* chapter container to processChapterContent, which reads the container's
\* children and sets up its locals
StartChapter ==
  /\ pc = "book"
  /\ chapterIdx < Len(pages)
  /\ \E n \in 0..(nodeBound - nodesUsed) :
       /\ nGroups' = n
       /\ nodesUsed' = nodesUsed + n
       /\ pc' = IF n = 0 THEN "book" ELSE "group"
  /\ chapterIdx' = chapterIdx + 1
  /\ currentChapterString' = pages[chapterIdx + 1]
  /\ currentChapter' = getNumberFromChapter(pages[chapterIdx + 1])
  /\ i' = 0
  /\ j' = 0
  /\ nSpans' = 0
  /\ topParentClassType' = <<>>
  /\ lastVerseUsfm' = <<>>
  /\ lastVerseLabel' = <<>>
  /\ resultVerse' = NewVerse(bookNumber)
  /\ saveHeaders' = saveHeadersAtStart(saveHeaders)
  /\ chapterVerseOrderCounter' = 0
  /\ headerOrderCounter' = 0
  /\ hist' = <<>>
  /\ groupTypes' = <<>>
  /\ chapterBase' = Len(bookResult.verses)
  /\ dropped' = saveHeaders
  /\ UNCHANGED <<bookNumber, pages, bookResult, cleanVars, bookVars, restVars>>

\* the head of the loop over chapterChildren: the group's class, the newline
\* put between the headings of two heading containers, the group's spans;
\* types are the classes a group of the page can have
StartGroupOf(types) ==
  /\ pc = "group"
  /\ \E type \in types, m \in 0..(nodeBound - nodesUsed) :
       /\ topParentClassType' = type
       /\ groupTypes' = Append(groupTypes, type)
       /\ saveHeaders' =
            IF /\ isHeadingTopContainer(type)
               /\ saveHeaders # <<>>
               /\ saveHeaders[1].text # <<>>
              THEN [saveHeaders EXCEPT ![1].text = @ \o <<"\n">>]
              ELSE saveHeaders
       /\ nSpans' = m
       /\ nodesUsed' = nodesUsed + m
  /\ j' = 0
  /\ pc' = "span"
  /\ UNCHANGED <<bookNumber, pages, chapterIdx, currentChapter,
                 currentChapterString, bookResult, nGroups, i, lastVerseUsfm,
                 lastVerseLabel, resultVerse, chapterVerseOrderCounter,
                 headerOrderCounter, hist, chapterBase, dropped, cleanVars, bookVars,
                 restVars>>

StartGroup == StartGroupOf(TopTypes)

Read(span) == [span EXCEPT !.n = Len(hist) + 1, !.g = i]

\* a span of class heading or nd, one of spans
HeadingSpanOf(spans) ==
  /\ pc = "span"
  /\ j < nSpans
  /\ \E span \in spans :
       /\ saveHeaders' = processHeading(Read(span), span.cls, saveHeaders,
                                        headerOrderCounter)
       /\ hist' = Append(hist, Read(span))
  /\ j' = j + 1
  /\ UNCHANGED <<pc, bookNumber, pages, chapterIdx, currentChapter,
                 currentChapterString, bookResult, nGroups, i,
                 topParentClassType, nSpans, lastVerseUsfm, lastVerseLabel,
                 resultVerse, chapterVerseOrderCounter, headerOrderCounter,
                 groupTypes, chapterBase, dropped, nodesUsed, cleanVars, bookVars,
                 restVars>>

HeadingSpan == HeadingSpanOf(HeadingSpans)

\* a span of class verse, one of spans: processVerse, the update of the
\* locals, and the finalize at the last span of the last group
VerseSpanOf(spans) ==
  /\ pc = "span"
  /\ j < nSpans
  /\ \E span \in spans :
       \E processed \in
            {processVerse(Read(span), lastVerseUsfm, lastVerseLabel, resultVerse,
                          saveHeaders, chapterVerseOrderCounter,
                          headerOrderCounter, bookNumber, bookResult)} :
         \E counter \in {IF processed.newVerse
                           THEN processed.chapterVerseOrderCounter
                           ELSE chapterVerseOrderCounter} :
           \E final \in
                {IF i = nGroups - 1 /\ j = nSpans - 1
                   THEN finalizeVerse(processed.resultVerse,
                                      processed.saveHeaders, counter + 1,
                                      bookNumber, currentChapter,
                                      processed.bookResult)
                   ELSE [resultVerse |-> processed.resultVerse,
                         saveHeaders |-> processed.saveHeaders,
                         bookResult |-> processed.bookResult]} :
          /\ lastVerseUsfm' = IF processed.newVerse
                                THEN processed.verseUsfm
                                ELSE lastVerseUsfm
          /\ lastVerseLabel' = IF processed.newVerse
                                 THEN processed.verseLabel
                                 ELSE lastVerseLabel
          /\ chapterVerseOrderCounter' = counter
          /\ headerOrderCounter' = IF processed.newVerse
                                     THEN processed.headerOrderCounter
                                     ELSE headerOrderCounter
          /\ resultVerse' = final.resultVerse
          /\ saveHeaders' = final.saveHeaders
          /\ bookResult' = final.bookResult
          /\ hist' = Append(hist, Read(span))
  /\ j' = j + 1
  /\ UNCHANGED <<pc, bookNumber, pages, chapterIdx, currentChapter,
                 currentChapterString, nGroups, i, topParentClassType, nSpans,
                 groupTypes, chapterBase, dropped, nodesUsed, cleanVars, bookVars,
                 restVars>>

VerseSpan == VerseSpanOf(VerseSpans(currentChapterString))

\* a span of any other class is passed over
OtherSpan ==
  /\ pc = "span"
  /\ j < nSpans
  /\ \E span \in OtherSpans : hist' = Append(hist, Read(span))
  /\ j' = j + 1
  /\ UNCHANGED <<pc, bookNumber, pages, chapterIdx, currentChapter,
                 currentChapterString, bookResult, nGroups, i,
                 topParentClassType, nSpans, lastVerseUsfm, lastVerseLabel,
                 resultVerse, saveHeaders, chapterVerseOrderCounter,
                 headerOrderCounter, groupTypes, chapterBase, dropped, nodesUsed,
                 cleanVars, bookVars, restVars>>

\* the end of the loop body over chapterChildren: the finalize for a blank
\* paragraph that is the last group, then the next group or the return
EndGroup ==
  /\ pc = "span"
  /\ j = nSpans
  /\ \E final \in
          {IF i = nGroups - 1 /\ topParentClassType = <<"b">>
             THEN finalizeVerse(resultVerse, saveHeaders,
                                chapterVerseOrderCounter + 1, bookNumber,
                                currentChapter, bookResult)
             ELSE [resultVerse |-> resultVerse, saveHeaders |-> saveHeaders,
                   bookResult |-> bookResult]} :
       /\ resultVerse' = final.resultVerse
       /\ saveHeaders' = final.saveHeaders
       /\ bookResult' = final.bookResult
  /\ i' = i + 1
  /\ pc' = IF i + 1 < nGroups THEN "group" ELSE "book"
  /\ UNCHANGED <<bookNumber, pages, chapterIdx, currentChapter,
                 currentChapterString, nGroups, topParentClassType, nSpans, j,
                 lastVerseUsfm, lastVerseLabel, chapterVerseOrderCounter,
                 headerOrderCounter, hist, groupTypes, chapterBase, dropped, nodesUsed,
                 cleanVars, bookVars, restVars>>

(***************************************************************************)
(* cleanText applied to a string, and again to its result.                 *)
(***************************************************************************)
CleanAlphabet == {"a", " ", "\n", ".", ","}

\* the strings over CleanAlphabet of length at most n
RECURSIVE StringsUpTo(_)
StringsUpTo(n) ==
  IF n = 0 THEN {<<>>}
  ELSE LET shorter == StringsUpTo(n - 1)
       IN shorter \cup {Append(s, c) : s \in shorter, c \in CleanAlphabet}

\* how many times cleanText is applied in a row
MaxApply == 2

Clean ==
  /\ Len(ct_out) < MaxApply
  /\ ct_out' = Append(ct_out,
                      cleanText(IF ct_out = <<>> THEN ct_in ELSE Last(ct_out)))
  /\ UNCHANGED <<ct_in, walkVars, bookVars, restVars>>

(***************************************************************************)
(* BibleScraperUtils.retryOperation                                        *)
(*                                                                         *)
(* An invocation of operation settles with a value or with an error; the   *)
(* outcome is ["ok", value] or ["err", error].                             *)
(***************************************************************************)
\* largest maxRetries tried
MaxRetries == 4

\* the loop test: another attempt is made
retryLoop(attempt, maxRetries) == attempt <= maxRetries

retryRethrowsEarly(attempt, maxRetries) == attempt + 1 >= maxRetries

\* the test of the catch block: the error is rethrown
retryRethrows(attempt, maxRetries) == attempt = maxRetries

\* the delay argument: safePageOperation's and the default
RetryDelays == {500, 1000}

RetryValues == {"v1", "v2"}
RetryErrors == {"e1", "e2"}
RetryOutcomes ==
  {<<"ok", v>> : v \in RetryValues} \cup {<<"err", e>> : e \in RetryErrors}

RetryIdle ==
  /\ r_maxRetries = 0
  /\ r_delay = 0
  /\ r_attempt = 0
  /\ r_pc = "idle"
  /\ r_log = <<>>
  /\ r_result = <<>>
  /\ r_waits = <<>>

\* the head of the for loop: operation is invoked, or the loop is over and
\* the function throws its own error
RetryInvoke ==
  /\ r_pc = "loop"
  /\ IF retryLoop(r_attempt, r_maxRetries)
       THEN r_pc' = "await" /\ r_result' = r_result
       ELSE r_pc' = "thrown" /\ r_result' = <<"err", "Should never reach here">>
  /\ UNCHANGED <<r_maxRetries, r_delay, r_attempt, r_log, r_waits>>
  /\ UNCHANGED <<walkVars, cleanVars, bookVars, poolVars, configVars, idVars,
                 chapterVars, containerVars,
                 chunkVars, shutdownVars>>

\* the awaited operation settles: return its value, rethrow its error, or
\* start the delay before the next attempt
RetrySettle ==
  /\ r_pc = "await"
  /\ \E outcome \in RetryOutcomes :
       /\ r_log' = Append(r_log, outcome)
       /\ IF outcome[1] = "ok"
            THEN r_pc' = "returned" /\ r_result' = outcome /\ r_waits' = r_waits
            ELSE IF retryRethrows(r_attempt, r_maxRetries)
              THEN r_pc' = "thrown" /\ r_result' = outcome /\ r_waits' = r_waits
              ELSE /\ r_pc' = "delay"
                   /\ r_result' = r_result
                   /\ r_waits' = Append(r_waits, r_delay * r_attempt)
  /\ UNCHANGED <<r_maxRetries, r_delay, r_attempt>>
  /\ UNCHANGED <<walkVars, cleanVars, bookVars, poolVars, configVars, idVars,
                 chapterVars, containerVars,
                 chunkVars, shutdownVars>>

\* the delay is over: attempt++ and back to the head of the loop
RetryDelayOver ==
  /\ r_pc = "delay"
  /\ r_attempt' = r_attempt + 1
  /\ r_pc' = "loop"
  /\ UNCHANGED <<r_maxRetries, r_delay, r_log, r_result, r_waits>>
  /\ UNCHANGED <<walkVars, cleanVars, bookVars, poolVars, configVars, idVars,
                 chapterVars, containerVars,
                 chunkVars, shutdownVars>>

(***************************************************************************)
(* BibleScraper.processBookWithRetry, processBook, navigateToNextChapter   *)
(* and finalizeBooksResults: one tab working through the pages of a book.  *)
(*                                                                         *)
(* The last path segment of a page's URL is BOOK.CHAPTER.VERSION. The      *)
(* site's pages of the book are revealed one navigation at a time.         *)
(***************************************************************************)
\* DOM nodes of one book when its navigation is followed
MaxBookNodes == 2
\* largest config.retryAttempts around processBook
MaxBookRetries == 2

bookUsfm == <<"B">>
OtherBook == <<"X">>
versionToGet == <<"V">>
IntroToken == <<"I", "N", "T", "R", "O", "1">>

PageUrl(book, token) == book \o <<".">> \o token \o <<".">> \o versionToGet

\* String.prototype.slice(0, n)
Slice(s, n) == SubSeq(s, 1, IF Len(s) < n THEN Len(s) ELSE n)

\* the elements of a set of numbers in the order for...in visits them as
\* keys of an object: the integer keys ascending, then NaN
RECURSIVE KeyOrder(_)
KeyOrder(S) ==
  IF S = {} THEN <<>>
  ELSE IF S \ {-1} = {} THEN <<-1>>
  ELSE LET m == Min(S \ {-1}) IN <<m>> \o KeyOrder(S \ {m})

finalizeBooksResultsNot(chapter, result) == result

finalizeBooksResults(chapter, result) ==
  LET keys == KeyOrder(DOMAIN result.cv_v_key)
  IN [result EXCEPT
        !.cv_count = [c |-> chapter,
                      v |-> [k \in 1..Len(keys) |-> result.cv_v_key[keys[k]]]]]

bookTransitionNever(newUrlBook, book) == FALSE

\* navigateToNextChapter: the new page belongs to a different book
bookTransition(newUrlBook, book) == newUrlBook # book

BookIdle ==
  /\ nodeBound = MaxNodes
  /\ bpc = "idle"
  /\ lastPartOfUrl = <<>>
  /\ expectedChapterCount = 0
  /\ chaptersProcessed = 0
  /\ retryAttempts = 0
  /\ bookAttempt = 0
  /\ discarded = 0
  /\ emitted = <<>>
  /\ opened = <<>>

\* retryOperation invokes processBook, which makes its bookResult and opens
\* the first page of the book; or the retry loop is over
BookInvoke ==
  /\ bpc = "start"
  /\ IF retryLoop(bookAttempt, retryAttempts)
       THEN /\ bpc' = "page"
            /\ lastPartOfUrl' = PageUrl(bookUsfm, pages[1])
            /\ chapterIdx' = 1
       ELSE /\ bpc' = "failed"
            /\ UNCHANGED <<lastPartOfUrl, chapterIdx>>
  /\ bookResult' = bookResultAtStart(bookResult)
  /\ currentChapter' = 0
  /\ currentChapterString' = <<"0">>
  /\ chaptersProcessed' = 0
  /\ emitted' = <<>>
  /\ opened' = <<>>
  /\ UNCHANGED <<pc, bookNumber, pages, nGroups, i, topParentClassType,
                 nSpans, j, lastVerseUsfm, lastVerseLabel, resultVerse,
                 saveHeaders, chapterVerseOrderCounter, headerOrderCounter,
                 hist, groupTypes, chapterBase, dropped, nodesUsed, nodeBound,
                 expectedChapterCount, retryAttempts, bookAttempt, discarded,
                 cleanVars,
                 restVars>>

\* the head of the while loop down to the call of processChapterContent: the
\* chapter token of the URL, the not-available marker, the wait for the
\* chapter container; then processChapterContent reads the container's
\* children and sets up its locals.  noting: the history of the opened
\* pages is kept
OpenPageOf(noting) ==
  /\ bpc = "page"
  /\ pc = "book"
  /\ \E notAvailable \in BOOLEAN, containerFound \in BOOLEAN,
        n \in 0..(nodeBound - nodesUsed) :
       LET parts == SplitOn(lastPartOfUrl, ".")
           middlePart == parts[2]
           intro == Len(middlePart) >= 5 /\ Slice(middlePart, 5) = Slice(IntroToken, 5)
           skip == intro \/ notAvailable
           chapterString == IF intro THEN currentChapterString ELSE middlePart
           \* the selector div[data-usfm*='BOOK.CHAPTER'] matches a container
           \* of this page only when the page is this book's
           found == containerFound /\ parts[1] = bookUsfm
           outcome == IF intro THEN "intro"
                      ELSE IF notAvailable THEN "unavailable"
                      ELSE IF found THEN "parsed"
                      ELSE "timeout"
       IN /\ (skip => ~containerFound /\ n = 0)
          /\ (~found => n = 0)
          /\ (intro => ~notAvailable)
          /\ currentChapterString' = chapterString
          /\ currentChapter' = IF intro THEN currentChapter
                               ELSE getNumberFromChapter(middlePart)
          /\ opened' = IF noting
                          THEN Append(opened, [url |-> lastPartOfUrl,
                                               outcome |-> outcome, nav |-> ""])
                          ELSE opened
          /\ bpc' = CASE outcome = "parsed" -> "walk"
                      [] outcome = "timeout" -> "thrown"
                      [] OTHER -> "nav"
          /\ nGroups' = n
          /\ nodesUsed' = nodesUsed + n
          /\ pc' = IF n = 0 THEN "book" ELSE "group"
  /\ i' = 0
  /\ j' = 0
  /\ nSpans' = 0
  /\ topParentClassType' = <<>>
  /\ lastVerseUsfm' = <<>>
  /\ lastVerseLabel' = <<>>
  /\ resultVerse' = NewVerse(bookNumber)
  /\ saveHeaders' = saveHeadersAtStart(saveHeaders)
  /\ chapterVerseOrderCounter' = 0
  /\ headerOrderCounter' = 0
  /\ hist' = <<>>
  /\ groupTypes' = <<>>
  /\ chapterBase' = Len(bookResult.verses)
  /\ dropped' = saveHeaders
  /\ UNCHANGED <<bookNumber, pages, chapterIdx, bookResult, nodeBound,
                 lastPartOfUrl, expectedChapterCount, chaptersProcessed,
                 retryAttempts, bookAttempt, discarded, emitted, cleanVars,
                 restVars>>

OpenPage == OpenPageOf(TRUE)

\* what following the next-chapter link can do: the selector or the
\* navigation throws, the anchor has no href, the link leads to the next
\* page of this book, or to the first page of the next book
NavOutcomes == {"throws", "nohref", "same", "other"}

\* the pages the next-chapter link of each page of the book can lead to
\* inside the book: the page after it
ChapterLinks == [k \in 1..Len(pages) |-> {k + 1} \cap (1..Len(pages))]

\* the rest of the loop body: chaptersProcessed++ after a parsed chapter,
\* navigateToNextChapter, the expected chapter count, the loop test and the
\* return of bookResult.  links: where the site's next-chapter links lead;
\* noting: the history of the opened pages is kept
NavigateOf(links, noting) ==
  /\ bpc \in {"walk", "nav"}
  /\ pc = "book"
  /\ \E outcome \in NavOutcomes, target \in 0..Len(pages) :
       LET processed == IF bpc = "walk" THEN chaptersProcessed + 1
                        ELSE chaptersProcessed
           newUrl == CASE outcome = "same" -> PageUrl(bookUsfm, pages[target])
                       [] outcome = "other" -> PageUrl(OtherBook, <<"1">>)
                       [] OTHER -> lastPartOfUrl
           newUrlBook == SplitOn(newUrl, ".")[1]
           transition == outcome \in {"same", "other"}
                           /\ bookTransition(newUrlBook, bookUsfm)
           anchorFound == outcome \in {"same", "other"} /\ ~transition
           nextChapterButtonFound ==
             anchorFound /\ ~(expectedChapterCount # 0
                                /\ processed >= expectedChapterCount)
       IN /\ (IF outcome = "same" THEN target \in links[chapterIdx]
                                     ELSE target = 0)
          /\ chaptersProcessed' = processed
          /\ emitted' = IF bpc = "walk"
                          THEN Append(emitted,
                                      [c |-> currentChapter,
                                       n |-> Len(bookResult.verses) - chapterBase])
                          ELSE emitted
          /\ lastPartOfUrl' = newUrl
          /\ chapterIdx' = IF outcome = "same" THEN target ELSE chapterIdx
          /\ bookResult' = IF outcome = "throws" \/ transition
                             THEN finalizeBooksResults(currentChapter, bookResult)
                             ELSE bookResult
          /\ opened' = IF noting
                          THEN [opened EXCEPT ![Len(opened)].nav = outcome]
                          ELSE opened
          /\ bpc' = IF nextChapterButtonFound THEN "page" ELSE "returned"
  /\ UNCHANGED <<pc, bookNumber, pages, currentChapter, currentChapterString,
                 nGroups, i, topParentClassType, nSpans, j, lastVerseUsfm,
                 lastVerseLabel, resultVerse, saveHeaders,
                 chapterVerseOrderCounter, headerOrderCounter, hist,
                 groupTypes, chapterBase, dropped, nodesUsed, nodeBound,
                 expectedChapterCount, retryAttempts, bookAttempt, discarded,
                 cleanVars,
                 restVars>>

Navigate == NavigateOf(ChapterLinks, TRUE)

\* retryOperation catches what processBook threw: it rethrows at the last
\* attempt, otherwise it waits and invokes processBook again
BookCatch ==
  /\ bpc = "thrown"
  /\ IF retryRethrows(bookAttempt, retryAttempts)
       THEN bpc' = "failed" /\ bookAttempt' = bookAttempt
       ELSE bpc' = "start" /\ bookAttempt' = bookAttempt + 1
  /\ discarded' = discarded + Len(bookResult.verses)
  /\ UNCHANGED <<walkVars, nodeBound, lastPartOfUrl, expectedChapterCount,
                 chaptersProcessed, retryAttempts, emitted, opened, cleanVars,
                 restVars>>

(***************************************************************************)
(* The BibleScraper constructor: InputValidator.validateConfig and the     *)
(* merge with DEFAULT_CONFIG.                                              *)
(*                                                                         *)
(* A field of the config argument is <<>> when absent and <<n>> when it    *)
(* holds the integer n.                                                    *)
(***************************************************************************)
DEFAULT_CONFIG ==
  [maxConcurrentTabs |-> 4, pageTimeout |-> 30000, retryAttempts |-> 3]

\* JavaScript truthiness of an optional integer: undefined and 0 are falsy
Truthy(x) == x # <<>> /\ x[1] # 0

\* "ok", or the message of the error thrown
validateConfig(c) ==
  IF /\ Truthy(c.maxConcurrentTabs)
     /\ (c.maxConcurrentTabs[1] < 1 \/ c.maxConcurrentTabs[1] > 100)
    THEN "maxConcurrentTabs must be between 1 and 100"
  ELSE IF Truthy(c.pageTimeout) /\ c.pageTimeout[1] < 1000
    THEN "pageTimeout must be at least 1000ms"
  ELSE IF /\ Truthy(c.retryAttempts)
          /\ (c.retryAttempts[1] < 1 \/ c.retryAttempts[1] > 10)
    THEN "retryAttempts must be between 1 and 10"
  ELSE "ok"

\* { ...DEFAULT_CONFIG, ...config }
MergeConfig(c) ==
  [f \in DOMAIN DEFAULT_CONFIG |-> IF c[f] = <<>> THEN DEFAULT_CONFIG[f] ELSE c[f][1]]

Optional(S) == {<<>>} \cup {<<n>> : n \in S}

\* config arguments around the limits of validateConfig
ConfigArguments ==
  [maxConcurrentTabs : Optional({-1, 0, 1, 2, 100, 101}),
   pageTimeout : Optional({0, 999, 1000}),
   retryAttempts : Optional({-1, 0, 1, 10, 11})]

\* new BibleScraper(versionKey, config)
Construct ==
  /\ cfg_state = "new"
  /\ IF validateConfig(cfg_in) = "ok"
       THEN cfg_state' = "constructed" /\ cfg_out' = MergeConfig(cfg_in)
       ELSE cfg_state' = "rejected" /\ cfg_out' = <<validateConfig(cfg_in)>>
  /\ UNCHANGED <<cfg_in, walkVars, cleanVars, bookVars, retryVars, poolVars,
                 idVars, chapterVars,
                 containerVars,
                 chunkVars, shutdownVars>>


(***************************************************************************)
(* BibleScraper.scrapeAllBooks: the tab pool, the workers processNextBook  *)
(* and saveResults.                                                        *)
(*                                                                         *)
(* JavaScript runs a worker without interruption from one await to the     *)
(* next, so an action is the code between two awaits. A worker is          *)
(* [pc, currentBookIndex, attempt, result]; pc names the await it is at.   *)
(***************************************************************************)
\* largest booksToProcess.length
MaxBooks == 3
\* largest config.maxConcurrentTabs given explicitly
MaxTabs == 2

\* the BookResult processBook returns for a book, reduced to the book and
\* order of its verses
BookVerses(book) == <<[b |-> book, o |-> 1], [b |-> book, o |-> 2]>>

BookResultOf(book) ==
  [verses |-> BookVerses(book), cv_count |-> [c |-> 1, v |-> <<2>>]]

\* the configs a constructed scraper can run the pool with
PoolConfigs ==
  {MergeConfig(c) :
     c \in {a \in [maxConcurrentTabs : Optional(0..MaxTabs), pageTimeout : {<<>>},
                   retryAttempts : Optional(0..MaxBookRetries)] :
              validateConfig(a) = "ok"}}

MathMax(a, b) == IF a < b THEN b ELSE a

\* Math.min
MathMin(a, b) == IF a < b THEN a ELSE b

afterCatchStop == "finished"

\* where a worker goes after the catch block: round the while loop again
afterCatch == "loop"

\* the head of the while loop of processNextBook, run by tab w with the cursor
\* at index: the test, the claim `bookIndex++` and the start of
\* processBookWithRetry; or the end of the worker
LoopHead(w, index, taken) ==
  IF index < nBooks
    THEN [bookIndex |-> index + 1,
          worker |-> [pc |-> "process", currentBookIndex |-> index,
                      attempt |-> 1, result |-> <<>>],
          claims |-> Append(taken, [tab |-> w, index |-> index])]
    ELSE [bookIndex |-> index,
          worker |-> [pc |-> "finished", currentBookIndex |-> 0,
                      attempt |-> 0, result |-> <<>>],
          claims |-> taken]

\* tabPool.map(processNextBook): the tabs 1..tabCount start one after the
\* other, each running to its first await
RECURSIVE StartWorkers(_, _, _)
StartWorkers(w, tabCount, acc) ==
  IF w > tabCount THEN acc
  ELSE LET head == LoopHead(w, acc.bookIndex, acc.claims)
       IN StartWorkers(w + 1, tabCount,
                       [bookIndex |-> head.bookIndex,
                        workers |-> Append(acc.workers, head.worker),
                        claims |-> head.claims])

\* the tab pool is created and the workers are started
StartPool ==
  /\ poolPc = "start"
  /\ LET tabCount == MathMin(config.maxConcurrentTabs, nBooks)
         started == StartWorkers(1, tabCount,
                                 [bookIndex |-> 0, workers |-> <<>>,
                                  claims |-> <<>>])
     IN /\ bookIndex' = started.bookIndex
        /\ workers' = started.workers
        /\ claims' = started.claims
  /\ poolPc' = "running"
  /\ UNCHANGED <<config, nBooks, completedCount, processResults, failedBooks,
                 completed, finalResult, cvCount>>
  /\ UNCHANGED <<walkVars, cleanVars, bookVars, retryVars, configVars, idVars,
                 chapterVars, containerVars,
                 chunkVars, shutdownVars>>

\* processBookWithRetry of tab w: an invocation of processBook by
\* retryOperation settles
AttemptBy(w) ==
  /\ poolPc = "running"
  /\ workers[w].pc = "process"
  /\ LET me == workers[w]
     IN IF ~retryLoop(me.attempt, config.retryAttempts)
          THEN workers' = [workers EXCEPT ![w].pc = "catch"]
          ELSE \E ok \in BOOLEAN :
                 workers' =
                   IF ok
                     THEN [workers EXCEPT
                             ![w].pc = "save",
                             ![w].result = BookResultOf(me.currentBookIndex + 1)]
                   ELSE IF retryRethrows(me.attempt, config.retryAttempts)
                     THEN [workers EXCEPT ![w].pc = "catch"]
                     ELSE [workers EXCEPT ![w].attempt = @ + 1]
  /\ UNCHANGED <<config, nBooks, poolPc, bookIndex, completedCount,
                 processResults, claims, failedBooks, completed, finalResult,
                 cvCount>>
  /\ UNCHANGED <<walkVars, cleanVars, bookVars, retryVars, configVars, idVars,
                 chapterVars, containerVars,
                 chunkVars, shutdownVars>>

\* saveIndividualBookResult of tab w settles: the file is written or the
\* write throws
SaveBookBy(w) ==
  /\ poolPc = "running"
  /\ workers[w].pc = "save"
  /\ \E ok \in BOOLEAN :
       workers' = [workers EXCEPT ![w].pc = IF ok THEN "clear" ELSE "catch"]
  /\ UNCHANGED <<config, nBooks, poolPc, bookIndex, completedCount,
                 processResults, claims, failedBooks, completed, finalResult,
                 cvCount>>
  /\ UNCHANGED <<walkVars, cleanVars, bookVars, retryVars, configVars, idVars,
                 chapterVars, containerVars,
                 chunkVars, shutdownVars>>

\* clearTab of the try block returns: the result is stored and the worker
\* goes round the loop
StoreResultBy(w) ==
  /\ poolPc = "running"
  /\ workers[w].pc = "clear"
  /\ LET me == workers[w]
         number == me.currentBookIndex + 1
         head == LoopHead(w, bookIndex, claims)
     IN /\ processResults' =
             Append(processResults,
                    [bookNumber |-> number, result |-> me.result])
        /\ completed' = Append(completed, number)
        /\ completedCount' = completedCount + 1
        /\ bookIndex' = head.bookIndex
        /\ workers' = [workers EXCEPT ![w] = head.worker]
        /\ claims' = head.claims
  /\ UNCHANGED <<config, nBooks, poolPc, failedBooks, finalResult, cvCount>>
  /\ UNCHANGED <<walkVars, cleanVars, bookVars, retryVars, configVars, idVars,
                 chapterVars, containerVars,
                 chunkVars, shutdownVars>>

\* clearTab of the catch block returns: the error is logged and the worker
\* goes round the loop
CatchErrorBy(w) ==
  /\ poolPc = "running"
  /\ workers[w].pc = "catch"
  /\ LET me == workers[w]
         head == IF afterCatch = "loop"
                   THEN LoopHead(w, bookIndex, claims)
                   ELSE LoopHead(w, nBooks, claims)
     IN /\ failedBooks' =
             failedBooks \cup
               {[book |-> me.currentBookIndex + 1,
                 threw |-> IF me.result = <<>> THEN "processBookWithRetry"
                           ELSE "saveIndividualBookResult"]}
        /\ bookIndex' = IF afterCatch = "loop" THEN head.bookIndex ELSE bookIndex
        /\ workers' = [workers EXCEPT ![w] = head.worker]
        /\ claims' = head.claims
  /\ UNCHANGED <<config, nBooks, poolPc, completedCount, processResults,
                 completed, finalResult, cvCount>>
  /\ UNCHANGED <<walkVars, cleanVars, bookVars, retryVars, configVars, idVars,
                 chapterVars, containerVars,
                 chunkVars, shutdownVars>>

Attempt == \E w \in 1..Len(workers) : AttemptBy(w)

SaveBook == \E w \in 1..Len(workers) : SaveBookBy(w)

StoreResult == \E w \in 1..Len(workers) : StoreResultBy(w)

CatchError == \E w \in 1..Len(workers) : CatchErrorBy(w)

sortResultsNot(results) == results

\* Array.prototype.sort((a, b) => a.bookNumber - b.bookNumber)
RECURSIVE sortResults(_)
sortResults(results) ==
  IF results = <<>> THEN <<>>
  ELSE LET least == Min({results[k].bookNumber : k \in 1..Len(results)})
           at == Min({k \in 1..Len(results) : results[k].bookNumber = least})
       IN <<results[at]>>
            \o sortResults(SubSeq(results, 1, at - 1)
                             \o SubSeq(results, at + 1, Len(results)))

\* saveResults: [finalResult, cvCount] for the results in the order given
RECURSIVE saveResults(_, _)
saveResults(results, acc) ==
  IF results = <<>> THEN acc
  ELSE LET r == Head(results)
           cv == acc.cvCount
       IN saveResults(
            Tail(results),
            [finalResult |-> acc.finalResult \o r.result.verses,
             cvCount |-> [b \in DOMAIN cv \cup {r.bookNumber} |->
                            IF b = r.bookNumber THEN r.result.cv_count
                            ELSE cv[b]]])

\* a promise that resolves with the first worker that finishes
PromiseAny(ws) == \E w \in 1..Len(ws) : ws[w].pc = "finished"

\* await Promise.all(workerPromises) resolves: every worker has finished
PromiseAll(ws) == \A w \in 1..Len(ws) : ws[w].pc = "finished"

\* Promise.all(workerPromises) has resolved: the results are sorted and
\* saveResults writes the consolidated files
FinishPool ==
  /\ poolPc = "running"
  /\ PromiseAll(workers)
  /\ processResults' = sortResults(processResults)
  /\ LET saved == saveResults(sortResults(processResults),
                              [finalResult |-> <<>>, cvCount |-> <<>>])
     IN /\ finalResult' = saved.finalResult
        /\ cvCount' = saved.cvCount
  /\ poolPc' = "saved"
  /\ UNCHANGED <<config, nBooks, bookIndex, completedCount, workers, claims,
                 failedBooks, completed>>
  /\ UNCHANGED <<walkVars, cleanVars, bookVars, retryVars, configVars, idVars,
                 chapterVars, containerVars,
                 chunkVars, shutdownVars>>


(***************************************************************************)
(* getVerseId and getNumberFromChapter applied to bounded inputs.          *)
(***************************************************************************)
\* chapter and order values around the changes of digit count within 1..999
IdParts == {1, 2, 9, 10, 11, 99, 100, 101, 998, 999}
IdBooks == {1, 19, 66}

MakeIds ==
  /\ id_a # <<>>
  /\ id_out = <<>>
  /\ id_out' = <<getVerseId(id_book, id_a[1], id_a[2]),
                 getVerseId(id_book, id_b[1], id_b[2])>>
  /\ UNCHANGED <<id_book, id_a, id_b, walkVars, cleanVars, bookVars,
                 retryVars, poolVars, configVars, chapterVars,
                 containerVars,
                 chunkVars, shutdownVars>>

\* longest run of digits in a chapter token
MaxTokenDigits == 2

TokenDigits == {"0", "1", "2", "3", "5"}

RECURSIVE DigitStrings(_)
DigitStrings(n) ==
  IF n = 0 THEN {<<>>}
  ELSE LET shorter == DigitStrings(n - 1)
       IN shorter \cup {Append(s, d) : s \in shorter, d \in TokenDigits}

\* the plain tokens ("5") and the compound tokens ("23_1")
PlainTokens == DigitStrings(MaxTokenDigits) \ {<<>>}
CompoundTokens == {a \o <<"_">> \o b : a \in PlainTokens, b \in PlainTokens}

ApplyGetNumber ==
  /\ gn_in # <<>>
  /\ gn_out = <<>>
  /\ gn_out' = <<getNumberFromChapter(gn_in)>>
  /\ UNCHANGED <<gn_in, walkVars, cleanVars, bookVars, retryVars, poolVars,
                 configVars, idVars, containerVars,
                 chunkVars, shutdownVars>>


(***************************************************************************)
(* isHeadingTopContainer applied to the class of a top-level group.        *)
(*                                                                         *)
(* The class is what cleanChapterContentClass returns: a lower-case word.  *)
(***************************************************************************)
\* longest class made of ClassLetters
MaxClassLen == 2

ClassLetters == {"m", "t", "e", "s", "r", "d", "p", "q", "1"}

RECURSIVE ClassesUpTo(_)
ClassesUpTo(n) ==
  IF n = 0 THEN {<<>>}
  ELSE LET shorter == ClassesUpTo(n - 1)
       IN shorter \cup {Append(s, c) : s \in shorter, c \in ClassLetters}

\* classes of the site's chapter markup that are longer or use other letters
NamedClasses ==
  {<<"m", "t", "e">>, <<"m", "t", "e", "1">>, <<"m", "s", "2">>,
   <<"s", "d", "1">>, <<"l", "i">>, <<"l", "i", "1">>, <<"b">>, <<"n", "b">>,
   <<"t", "a", "b", "l", "e">>, <<"p", "m", "r">>, <<"q", "1">>}

GroupClasses == (ClassesUpTo(MaxClassLen) \ {<<>>}) \cup NamedClasses

ApplyIsHeading ==
  /\ hc_in # <<>>
  /\ hc_out = <<>>
  /\ hc_out' = <<isHeadingTopContainer(hc_in)>>
  /\ UNCHANGED <<hc_in, walkVars, cleanVars, bookVars, retryVars, poolVars,
                 configVars, idVars, chapterVars, chunkVars, shutdownVars>>


(***************************************************************************)
(* index_backup.ts, main: the books are processed chunk by chunk, each     *)
(* chunk with Promise.all over one processBook per book, inside main's     *)
(* try / catch / finally.                                                  *)
(*                                                                         *)
(* A book is its book number; the promise of a book is "idle" before its   *)
(* chunk starts, then "pending", then "fulfilled" or "rejected".           *)
(***************************************************************************)
\* largest generatedBookList.length
MaxChunkBooks == 5

MAX_CONCURRENT_TABS == 4

\* generatedBookList.slice(i, i + MAX_CONCURRENT_TABS), as book numbers
chunk(from, n) == {b \in 1..n : from < b /\ b <= from + MAX_CONCURRENT_TABS}

\* the book numbers of a set in ascending order
RECURSIVE Ascending(_)
Ascending(S) ==
  IF S = {} THEN <<>> ELSE LET m == Min(S) IN <<m>> \o Ascending(S \ {m})

\* the head of the for loop: the promises of the next chunk are created, or
\* the loop is over and the results are sorted
ChunkLoop ==
  /\ ck_pc = "loop"
  /\ IF ck_i < ck_n
       THEN /\ ck_promise' = [b \in 1..ck_n |->
                                IF b \in chunk(ck_i, ck_n) THEN "pending"
                                ELSE ck_promise[b]]
            /\ ck_pc' = "await"
       ELSE /\ ck_promise' = ck_promise
            /\ ck_pc' = "write"
  /\ UNCHANGED <<ck_n, ck_i, ck_results, ck_files, ck_final, ck_browser>>
  /\ UNCHANGED <<walkVars, cleanVars, bookVars, retryVars, poolVars,
                 configVars, idVars, chapterVars, containerVars,
                 shutdownVars>>

\* processBook returns the book's result
ChunkBookReturns ==
  /\ ck_browser = "open"
  /\ \E b \in 1..ck_n :
       /\ ck_promise[b] = "pending"
       /\ ck_promise' = [ck_promise EXCEPT ![b] = "fulfilled"]
  /\ UNCHANGED <<ck_n, ck_i, ck_pc, ck_results, ck_files, ck_final,
                 ck_browser>>
  /\ UNCHANGED <<walkVars, cleanVars, bookVars, retryVars, poolVars,
                 configVars, idVars, chapterVars, containerVars,
                 shutdownVars>>

\* processBook throws: tabPage.goto or the wait for the chapter container
\* fails, or the browser has been closed under it
ChunkBookThrows ==
  /\ \E b \in 1..ck_n :
       /\ ck_promise[b] = "pending"
       /\ ck_promise' = [ck_promise EXCEPT ![b] = "rejected"]
  /\ UNCHANGED <<ck_n, ck_i, ck_pc, ck_results, ck_files, ck_final,
                 ck_browser>>
  /\ UNCHANGED <<walkVars, cleanVars, bookVars, retryVars, poolVars,
                 configVars, idVars, chapterVars, containerVars,
                 shutdownVars>>

\* await Promise.all(chunkPromises) resolves: every promise of the chunk is
\* fulfilled; the results are pushed and the loop goes on
ChunkResolves ==
  /\ ck_pc = "await"
  /\ \A b \in chunk(ck_i, ck_n) : ck_promise[b] = "fulfilled"
  /\ ck_results' = ck_results \o Ascending(chunk(ck_i, ck_n))
  /\ ck_i' = ck_i + MAX_CONCURRENT_TABS
  /\ ck_pc' = "loop"
  /\ UNCHANGED <<ck_n, ck_promise, ck_files, ck_final, ck_browser>>
  /\ UNCHANGED <<walkVars, cleanVars, bookVars, retryVars, poolVars,
                 configVars, idVars, chapterVars, containerVars,
                 shutdownVars>>

\* await Promise.all(chunkPromises) rejects as soon as one promise of the
\* chunk is rejected: control goes to main's catch
ChunkRejects ==
  /\ ck_pc = "await"
  /\ \E b \in chunk(ck_i, ck_n) : ck_promise[b] = "rejected"
  /\ ck_pc' = "caught"
  /\ UNCHANGED <<ck_n, ck_i, ck_promise, ck_results, ck_files, ck_final,
                 ck_browser>>
  /\ UNCHANGED <<walkVars, cleanVars, bookVars, retryVars, poolVars,
                 configVars, idVars, chapterVars, containerVars,
                 shutdownVars>>

\* the loop over the sorted results: the file of the next book is written,
\* or, after the last, the consolidated outputs
ChunkWrite ==
  /\ ck_pc = "write"
  /\ IF Len(ck_files) < Len(ck_results)
       THEN /\ ck_files' = Append(ck_files, ck_results[Len(ck_files) + 1])
            /\ UNCHANGED <<ck_final, ck_pc>>
       ELSE /\ ck_final' = TRUE
            /\ ck_pc' = "finally"
            /\ ck_files' = ck_files
  /\ UNCHANGED <<ck_n, ck_i, ck_promise, ck_results, ck_browser>>
  /\ UNCHANGED <<walkVars, cleanVars, bookVars, retryVars, poolVars,
                 configVars, idVars, chapterVars, containerVars,
                 shutdownVars>>

\* main's catch block logs the error
ChunkCatch ==
  /\ ck_pc = "caught"
  /\ ck_pc' = "finally"
  /\ UNCHANGED <<ck_n, ck_i, ck_promise, ck_results, ck_files, ck_final,
                 ck_browser>>
  /\ UNCHANGED <<walkVars, cleanVars, bookVars, retryVars, poolVars,
                 configVars, idVars, chapterVars, containerVars,
                 shutdownVars>>

\* main's finally block closes the browser
ChunkFinally ==
  /\ ck_pc = "finally"
  /\ ck_browser' = "closed"
  /\ ck_pc' = "done"
  /\ UNCHANGED <<ck_n, ck_i, ck_promise, ck_results, ck_files, ck_final>>
  /\ UNCHANGED <<walkVars, cleanVars, bookVars, retryVars, poolVars,
                 configVars, idVars, chapterVars, containerVars,
                 shutdownVars>>

(***************************************************************************)
(* ResourceManager.gracefulShutdown, invoked by the handlers of SIGINT,    *)
(* SIGTERM and uncaughtException and by cleanup.  An invocation runs       *)
(* without interruption up to its first await: the test and the set of     *)
(* isShuttingDown and the calls of page.close() are one step.              *)
(***************************************************************************)
MaxPages == 3
MaxShutdownCalls == 3

ShutdownCallers == {"SIGINT", "SIGTERM", "uncaughtException", "cleanup"}

alreadyShuttingDownNever(isShuttingDown) == FALSE

\* if (this.isShuttingDown) return;
alreadyShuttingDown(isShuttingDown) == isShuttingDown

\* gracefulShutdown is invoked: it returns at once, or it sets the flag and
\* calls close() on every page of this.pages
ShutdownInvoke ==
  /\ ~sd_exited
  /\ Len(sd_calls) < MaxShutdownCalls
  /\ \E caller \in ShutdownCallers :
       IF alreadyShuttingDown(sd_flag)
         THEN /\ sd_calls' = Append(sd_calls, [by |-> caller, at |-> "returned"])
              /\ UNCHANGED <<sd_flag, sd_pages, sd_pageCloses>>
         ELSE /\ sd_flag' = TRUE
              /\ sd_pages' = [k \in 1..Len(sd_pages) |-> "closing"]
              /\ sd_pageCloses' =
                   [k \in 1..Len(sd_pages) |-> sd_pageCloses[k] + 1]
              /\ sd_calls' = Append(sd_calls, [by |-> caller, at |-> "pages"])
  /\ UNCHANGED <<sd_browserCloses, sd_exited, sd_browser>>
  /\ UNCHANGED <<walkVars, cleanVars, bookVars, retryVars, poolVars,
                 configVars, idVars, chapterVars, containerVars, chunkVars>>

\* page.close() of one page resolves, or rejects and the rejection is caught
PageCloseSettles ==
  /\ ~sd_exited
  /\ \E k \in 1..Len(sd_pages), outcome \in {"closed", "failed"} :
       /\ sd_pages[k] = "closing"
       /\ sd_pages' = [sd_pages EXCEPT ![k] = outcome]
  /\ UNCHANGED <<sd_flag, sd_pageCloses, sd_browserCloses, sd_calls,
                 sd_exited, sd_browser>>
  /\ UNCHANGED <<walkVars, cleanVars, bookVars, retryVars, poolVars,
                 configVars, idVars, chapterVars, containerVars, chunkVars>>

\* Promise.all over the pages resolves: browser.close() is called when there
\* is a browser, otherwise the process exits
ShutdownPagesDone ==
  /\ ~sd_exited
  /\ \A k \in 1..Len(sd_pages) : sd_pages[k] # "closing"
  /\ \E c \in 1..Len(sd_calls) :
       /\ sd_calls[c].at = "pages"
       /\ IF sd_browser # "none"
            THEN /\ sd_browser' = "closing"
                 /\ sd_browserCloses' = sd_browserCloses + 1
                 /\ sd_calls' = [sd_calls EXCEPT ![c].at = "browser"]
                 /\ UNCHANGED sd_exited
            ELSE /\ sd_calls' = [sd_calls EXCEPT ![c].at = "exit"]
                 /\ sd_exited' = TRUE
                 /\ UNCHANGED <<sd_browser, sd_browserCloses>>
  /\ UNCHANGED <<sd_flag, sd_pages, sd_pageCloses>>
  /\ UNCHANGED <<walkVars, cleanVars, bookVars, retryVars, poolVars,
                 configVars, idVars, chapterVars, containerVars, chunkVars>>

\* browser.close() resolves, or rejects into the catch block; then
\* process.exit(0)
ShutdownBrowserDone ==
  /\ ~sd_exited
  /\ \E c \in 1..Len(sd_calls), outcome \in {"closed", "failed"} :
       /\ sd_calls[c].at = "browser"
       /\ sd_browser' = outcome
       /\ sd_calls' = [sd_calls EXCEPT ![c].at = "exit"]
  /\ sd_exited' = TRUE
  /\ UNCHANGED <<sd_flag, sd_pages, sd_pageCloses, sd_browserCloses>>
  /\ UNCHANGED <<walkVars, cleanVars, bookVars, retryVars, poolVars,
                 configVars, idVars, chapterVars, containerVars, chunkVars>>


(***************************************************************************)
(* The parts of the program a specification leaves at rest.                *)
(***************************************************************************)
CleanIdle ==
  /\ ct_in = <<>>
  /\ ct_out = <<>>

PoolIdle ==
  /\ config = DEFAULT_CONFIG
  /\ nBooks = 0
  /\ poolPc = "idle"
  /\ bookIndex = 0
  /\ completedCount = 0
  /\ processResults = <<>>
  /\ workers = <<>>
  /\ claims = <<>>
  /\ failedBooks = {}
  /\ completed = <<>>
  /\ finalResult = <<>>
  /\ cvCount = <<>>

ConfigIdle ==
  /\ cfg_in = <<>>
  /\ cfg_state = "idle"
  /\ cfg_out = <<>>

IdIdle ==
  /\ id_book = 0
  /\ id_a = <<>>
  /\ id_b = <<>>
  /\ id_out = <<>>

ChapterIdle ==
  /\ gn_in = <<>>
  /\ gn_out = <<>>

ContainerIdle ==
  /\ hc_in = <<>>
  /\ hc_out = <<>>

ChunkIdle ==
  /\ ck_n = 0
  /\ ck_i = 0
  /\ ck_pc = "idle"
  /\ ck_promise = <<>>
  /\ ck_results = <<>>
  /\ ck_files = <<>>
  /\ ck_final = FALSE
  /\ ck_browser = "open"

ShutdownIdle ==
  /\ sd_flag = FALSE
  /\ sd_pages = <<>>
  /\ sd_pageCloses = <<>>
  /\ sd_browserCloses = 0
  /\ sd_calls = <<>>
  /\ sd_exited = FALSE
  /\ sd_browser = "none"


(***************************************************************************)
(* Specifications.                                                         *)
(***************************************************************************)
Init ==
  /\ InitWalk
  /\ CleanIdle
  /\ BookIdle
  /\ RetryIdle
  /\ PoolIdle
  /\ ConfigIdle
  /\ IdIdle
  /\ ChapterIdle
  /\ ContainerIdle
  /\ ChunkIdle
  /\ ShutdownIdle

Next ==
  \/ StartChapter
  \/ StartGroup
  \/ HeadingSpan
  \/ VerseSpan
  \/ OtherSpan
  \/ EndGroup

\* one book: its chapter pages walked one after the other
Spec == Init /\ [][Next]_vars

InitClean ==
  /\ InitWalk
  /\ pages = PlainPages
  /\ ct_in \in StringsUpTo(MaxLen)
  /\ ct_out = <<>>
  /\ BookIdle
  /\ RetryIdle
  /\ PoolIdle
  /\ ConfigIdle
  /\ IdIdle
  /\ ChapterIdle
  /\ ContainerIdle
  /\ ChunkIdle
  /\ ShutdownIdle

NextClean == Clean

\* cleanText on every string of the bounded alphabet
SpecClean == InitClean /\ [][NextClean]_vars

\* chapter tokens of the pages of the book the tab follows
IntroPages == <<IntroToken>> \o SubSeq(PlainPages, 1, MaxChapters - 1)
BookPageLists == {PlainPages, CompoundPages, IntroPages}

InitBook ==
  /\ InitWalkOn(BookPageLists)
  /\ CleanIdle
  /\ RetryIdle
  /\ PoolIdle
  /\ ConfigIdle
  /\ IdIdle
  /\ ChapterIdle
  /\ ContainerIdle
  /\ ChunkIdle
  /\ ShutdownIdle
  /\ nodeBound = MaxBookNodes
  /\ bpc = "start"
  /\ lastPartOfUrl = <<>>
  /\ expectedChapterCount \in 0..MaxChapters
  /\ chaptersProcessed = 0
  /\ retryAttempts \in 0..MaxBookRetries
  /\ bookAttempt = 1
  /\ discarded = 0
  /\ emitted = <<>>
  /\ opened = <<>>

NextBook ==
  \/ BookInvoke
  \/ OpenPage
  \/ StartGroup
  \/ HeadingSpan
  \/ VerseSpan
  \/ OtherSpan
  \/ EndGroup
  \/ Navigate
  \/ BookCatch

\* one book behind processBookWithRetry: its pages opened, parsed and left
\* through the next-chapter link
SpecBook == InitBook /\ [][NextBook]_vars

InitRetry ==
  /\ InitWalk
  /\ pages = PlainPages
  /\ CleanIdle
  /\ BookIdle
  /\ PoolIdle
  /\ ConfigIdle
  /\ IdIdle
  /\ ChapterIdle
  /\ ContainerIdle
  /\ ChunkIdle
  /\ ShutdownIdle
  /\ r_maxRetries \in 0..MaxRetries
  /\ r_delay \in RetryDelays
  /\ r_attempt = 1
  /\ r_pc = "loop"
  /\ r_log = <<>>
  /\ r_result = <<>>
  /\ r_waits = <<>>

NextRetry ==
  \/ RetryInvoke
  \/ RetrySettle
  \/ RetryDelayOver

\* retryOperation around an operation that settles either way
SpecRetry == InitRetry /\ [][NextRetry]_vars

InitConfig ==
  /\ InitWalk
  /\ pages = PlainPages
  /\ CleanIdle
  /\ BookIdle
  /\ RetryIdle
  /\ PoolIdle
  /\ IdIdle
  /\ ChapterIdle
  /\ ContainerIdle
  /\ ChunkIdle
  /\ ShutdownIdle
  /\ cfg_in \in ConfigArguments
  /\ cfg_state = "new"
  /\ cfg_out = <<>>

NextConfig == Construct

\* the constructor on config arguments around the limits
SpecConfig == InitConfig /\ [][NextConfig]_vars

InitPool ==
  /\ InitWalk
  /\ pages = PlainPages
  /\ CleanIdle
  /\ BookIdle
  /\ RetryIdle
  /\ ConfigIdle
  /\ IdIdle
  /\ ChapterIdle
  /\ ContainerIdle
  /\ ChunkIdle
  /\ ShutdownIdle
  /\ config \in PoolConfigs
  /\ nBooks \in 1..MaxBooks
  /\ poolPc = "start"
  /\ bookIndex = 0
  /\ completedCount = 0
  /\ processResults = <<>>
  /\ workers = <<>>
  /\ claims = <<>>
  /\ failedBooks = {}
  /\ completed = <<>>
  /\ finalResult = <<>>
  /\ cvCount = <<>>

NextPool ==
  \/ StartPool
  \/ Attempt
  \/ SaveBook
  \/ StoreResult
  \/ CatchError
  \/ FinishPool

\* scrapeAllBooks from the creation of the tab pool to saveResults
SpecPool == InitPool /\ [][NextPool]_vars

InitId ==
  /\ InitWalk
  /\ pages = PlainPages
  /\ CleanIdle
  /\ BookIdle
  /\ RetryIdle
  /\ PoolIdle
  /\ ConfigIdle
  /\ ChapterIdle
  /\ ContainerIdle
  /\ ChunkIdle
  /\ ShutdownIdle
  /\ id_book \in IdBooks
  /\ id_a \in IdParts \X IdParts
  /\ id_b \in IdParts \X IdParts
  /\ id_out = <<>>

NextId == MakeIds

\* getVerseId on two (chapter, order) pairs of one book
SpecId == InitId /\ [][NextId]_vars

InitChapter ==
  /\ InitWalk
  /\ pages = PlainPages
  /\ CleanIdle
  /\ BookIdle
  /\ RetryIdle
  /\ PoolIdle
  /\ ConfigIdle
  /\ IdIdle
  /\ gn_in \in PlainTokens \cup CompoundTokens
  /\ gn_out = <<>>
  /\ ContainerIdle
  /\ ChunkIdle
  /\ ShutdownIdle

NextChapter == ApplyGetNumber

\* getNumberFromChapter on plain and compound chapter tokens
SpecChapter == InitChapter /\ [][NextChapter]_vars

\* a chapter page of section headings and plain verses: the groups are
\* paragraphs, section-heading containers and blank paragraphs, the spans
\* are headings with text and verses with a reference
MaxHeadingNodes == 6
HeadingPages == <<<<"1">>>>
HeadingTopTypes == {<<"p">>, <<"s">>, <<"b">>}
HeadingsWithText == {Span("heading", <<>>, <<"h">>, <<>>)}
PlainVerses ==
  {Span("verse", Usfm(<<"1">>, v), <<>>, PlainBody) : v \in {<<"4">>, <<"5">>}}

InitHeadings ==
  /\ InitWalkOn({HeadingPages})
  /\ CleanIdle
  /\ RetryIdle
  /\ PoolIdle
  /\ ConfigIdle
  /\ IdIdle
  /\ ChapterIdle
  /\ ContainerIdle
  /\ ChunkIdle
  /\ ShutdownIdle
  /\ nodeBound = MaxHeadingNodes
  /\ bpc = "idle"
  /\ lastPartOfUrl = <<>>
  /\ expectedChapterCount = 0
  /\ chaptersProcessed = 0
  /\ retryAttempts = 0
  /\ bookAttempt = 0
  /\ discarded = 0
  /\ emitted = <<>>
  /\ opened = <<>>

NextHeadings ==
  \/ StartChapter
  \/ StartGroupOf(HeadingTopTypes)
  \/ HeadingSpanOf(HeadingsWithText)
  \/ VerseSpanOf(PlainVerses)
  \/ EndGroup

\* processChapterContent on a chapter page of section headings and verses
SpecHeadings == InitHeadings /\ [][NextHeadings]_vars


\* a chapter page of paragraphs of verses and headings: a verse has a plain
\* reference, two references joined with "+" or no reference, and children
\* of the categories label, note, nd, sc and plain content
MaxVerseNodes == 5
VersePages == <<<<"3">>>>
VerseTopTypes == {<<"p">>}
CombinedUsfm == Usfm(<<"3">>, <<"2">>) \o <<"+">> \o Usfm(<<"3">>, <<"3">>)
MixedBody ==
  <<Child("label", <<"l">>), Child("content", <<"c">>), Child("note", <<"n">>),
    Child("nd", <<"b">>), Child("wj", <<"w">>), Child("sc", <<"a">>)>>
ContentVerses ==
  {Span("verse", u, <<>>, b) :
     u \in {CombinedUsfm, Usfm(<<"3">>, <<"4">>)}, b \in {PlainBody, MixedBody}}
    \cup {Span("verse", <<>>, <<>>, MixedBody)}

InitVerses ==
  /\ InitWalkOn({VersePages})
  /\ CleanIdle
  /\ RetryIdle
  /\ PoolIdle
  /\ ConfigIdle
  /\ IdIdle
  /\ ChapterIdle
  /\ ContainerIdle
  /\ ChunkIdle
  /\ ShutdownIdle
  /\ nodeBound = MaxVerseNodes
  /\ bpc = "idle"
  /\ lastPartOfUrl = <<>>
  /\ expectedChapterCount = 0
  /\ chaptersProcessed = 0
  /\ retryAttempts = 0
  /\ bookAttempt = 0
  /\ discarded = 0
  /\ emitted = <<>>
  /\ opened = <<>>

NextVerses ==
  \/ StartChapter
  \/ StartGroupOf(VerseTopTypes)
  \/ HeadingSpanOf(HeadingsWithText)
  \/ VerseSpanOf(ContentVerses)
  \/ EndGroup

\* processChapterContent on a chapter page of paragraphs of verses and
\* headings
SpecVerses == InitVerses /\ [][NextVerses]_vars


InitContainer ==
  /\ InitWalk
  /\ pages = PlainPages
  /\ CleanIdle
  /\ BookIdle
  /\ RetryIdle
  /\ PoolIdle
  /\ ConfigIdle
  /\ IdIdle
  /\ ChapterIdle
  /\ hc_in \in GroupClasses
  /\ hc_out = <<>>
  /\ ChunkIdle
  /\ ShutdownIdle

NextContainer == ApplyIsHeading

\* isHeadingTopContainer on the classes of top-level groups
SpecContainer == InitContainer /\ [][NextContainer]_vars


InitChunk ==
  /\ InitWalk
  /\ pages = PlainPages
  /\ CleanIdle
  /\ BookIdle
  /\ RetryIdle
  /\ PoolIdle
  /\ ConfigIdle
  /\ IdIdle
  /\ ChapterIdle
  /\ ContainerIdle
  /\ ShutdownIdle
  /\ ck_n \in 1..MaxChunkBooks
  /\ ck_i = 0
  /\ ck_pc = "loop"
  /\ ck_promise = [b \in 1..ck_n |-> "idle"]
  /\ ck_results = <<>>
  /\ ck_files = <<>>
  /\ ck_final = FALSE
  /\ ck_browser = "open"

NextChunk ==
  \/ ChunkLoop
  \/ ChunkBookReturns
  \/ ChunkBookThrows
  \/ ChunkResolves
  \/ ChunkRejects
  \/ ChunkWrite
  \/ ChunkCatch
  \/ ChunkFinally

\* the chunked main of index_backup.ts over a list of books
SpecChunk == InitChunk /\ [][NextChunk]_vars


\* DOM nodes of one book over all the attempts at it
MaxAttemptNodes == 4

\* a book of paragraphs of plain verses behind the retry
AttemptTopTypes == {<<"p">>}
AttemptVerses(chapterToken) ==
  {Span("verse", Usfm(chapterToken, v), <<>>, PlainBody) :
     v \in {<<"4">>, <<"5">>}}

InitAttempts ==
  /\ InitWalkOn(BookPageLists)
  /\ CleanIdle
  /\ RetryIdle
  /\ PoolIdle
  /\ ConfigIdle
  /\ IdIdle
  /\ ChapterIdle
  /\ ContainerIdle
  /\ ChunkIdle
  /\ ShutdownIdle
  /\ nodeBound = MaxAttemptNodes
  /\ bpc = "start"
  /\ lastPartOfUrl = <<>>
  /\ expectedChapterCount = 0
  /\ chaptersProcessed = 0
  /\ retryAttempts \in 1..MaxBookRetries
  /\ bookAttempt = 1
  /\ discarded = 0
  /\ emitted = <<>>
  /\ opened = <<>>

NextAttempts ==
  \/ BookInvoke
  \/ OpenPage
  \/ StartGroupOf(AttemptTopTypes)
  \/ VerseSpanOf(AttemptVerses(currentChapterString))
  \/ EndGroup
  \/ Navigate
  \/ BookCatch

\* processBookWithRetry on a book of plain verses: the attempts at the book,
\* each from its first page
SpecAttempts == InitAttempts /\ [][NextAttempts]_vars


\* a site whose next-chapter link of the last page of the book leads back
\* into the book: to its first page, to a page between, or to the last page
\* itself
CyclicLinks ==
  [k \in 1..Len(pages) |-> IF k < Len(pages) THEN {k + 1} ELSE 1..Len(pages)]

CycleOpenPage == OpenPageOf(FALSE)

CycleNavigate == NavigateOf(CyclicLinks, FALSE)

InitCycle ==
  /\ InitWalkOn(BookPageLists)
  /\ CleanIdle
  /\ RetryIdle
  /\ PoolIdle
  /\ ConfigIdle
  /\ IdIdle
  /\ ChapterIdle
  /\ ContainerIdle
  /\ ChunkIdle
  /\ ShutdownIdle
  /\ nodeBound = MaxAttemptNodes
  /\ bpc = "start"
  /\ lastPartOfUrl = <<>>
  /\ expectedChapterCount \in 1..MaxChapters
  /\ chaptersProcessed = 0
  /\ retryAttempts = 1
  /\ bookAttempt = 1
  /\ discarded = 0
  /\ emitted = <<>>
  /\ opened = <<>>

NextCycle ==
  \/ BookInvoke
  \/ CycleOpenPage
  \/ StartGroupOf(AttemptTopTypes)
  \/ VerseSpanOf(AttemptVerses(currentChapterString))
  \/ EndGroup
  \/ CycleNavigate
  \/ BookCatch

\* one call of processBook with a positive expectedChapterCount on a site
\* whose next-chapter links form a cycle inside the book
SpecCycle == InitCycle /\ [][NextCycle]_vars

\* processBook is one sequential async function, and every await in it ends
\* (a puppeteer call resolves, or rejects at its timeout): whenever it has a
\* next step, it takes one
SpecCycleFair == SpecCycle /\ WF_vars(NextCycle)


InitShutdown ==
  /\ InitWalk
  /\ pages = PlainPages
  /\ CleanIdle
  /\ BookIdle
  /\ RetryIdle
  /\ PoolIdle
  /\ ConfigIdle
  /\ IdIdle
  /\ ChapterIdle
  /\ ContainerIdle
  /\ ChunkIdle
  /\ sd_flag = FALSE
  /\ \E n \in 0..MaxPages :
       /\ sd_pages = [k \in 1..n |-> "open"]
       /\ sd_pageCloses = [k \in 1..n |-> 0]
  /\ sd_browserCloses = 0
  /\ sd_calls = <<>>
  /\ sd_exited = FALSE
  /\ sd_browser \in {"none", "open"}

NextShutdown ==
  \/ ShutdownInvoke
  \/ PageCloseSettles
  \/ ShutdownPagesDone
  \/ ShutdownBrowserDone

\* the invocations of gracefulShutdown on a manager with some pages, with or
\* without a browser
SpecShutdown == InitShutdown /\ [][NextShutdown]_vars


(***************************************************************************)
(* Vocabulary of the properties.                                           *)
(***************************************************************************)
Range(s) == {s[k] : k \in DOMAIN s}

\* the records pushed by the current (or last) chapter walk, in push order
ChapterRecords ==
  SubSeq(bookResult.verses, chapterBase + 1, Len(bookResult.verses))

\* processChapterContent has returned from the chapter whose spans hist holds
WalkReturned == pc = "book" /\ chapterIdx > 0

\* span k of the chapter is a verse span with a reference
RefVerse(k) == hist[k].cls = "verse" /\ hist[k].usfm # <<>>

\* span k of the chapter is a heading span with text
HeadingAt(k) == hist[k].cls \in {"heading", "nd"} /\ hist[k].text # <<>>

LabelOf(k) == FirstLabel(hist[k].body)

\* the verse number written in a reference BOOK.chapter.verse[+...]
VerseNumberOf(usfm) == Number(SplitOn(ReplaceAll(usfm, <<"+">>, <<".">>), ".")[3])

\* the spans that begin a verse, in document order: the first verse span with a
\* reference, and every later one whose reference differs from the one before
\* or whose non-empty label differs from the last label seen
RECURSIVE RunStartsFrom(_, _, _, _)
RunStartsFrom(k, lastUsfm, lastLabel, acc) ==
  IF k > Len(hist) THEN acc
  ELSE IF ~RefVerse(k) THEN RunStartsFrom(k + 1, lastUsfm, lastLabel, acc)
  ELSE IF \/ lastUsfm = <<>>
          \/ hist[k].usfm # lastUsfm
          \/ (LabelOf(k) # <<>> /\ LabelOf(k) # lastLabel)
    THEN RunStartsFrom(k + 1, hist[k].usfm, LabelOf(k), Append(acc, k))
    ELSE RunStartsFrom(k + 1, lastUsfm,
                       IF LabelOf(k) # <<>> THEN LabelOf(k) ELSE lastLabel, acc)

RunStarts == RunStartsFrom(1, <<>>, <<>>, <<>>)

\* the verse spans with a reference from position from up to position to
RECURSIVE RefVersesIn(_, _)
RefVersesIn(from, to) ==
  IF from > to THEN <<>>
  ELSE IF RefVerse(from) THEN <<from>> \o RefVersesIn(from + 1, to)
  ELSE RefVersesIn(from + 1, to)

\* the maximal runs of verse spans between two boundaries
Runs ==
  [a \in 1..Len(RunStarts) |->
     RefVersesIn(RunStarts[a],
                 IF a < Len(RunStarts) THEN RunStarts[a + 1] - 1 ELSE Len(hist))]

\* what the children of a verse span add to the text: nothing for note and
\* label, the upper-cased text for nd and sc, a space and the text otherwise
RECURSIVE SpanText(_)
SpanText(body) ==
  IF body = <<>> THEN <<>>
  ELSE LET child == Head(body)
       IN (IF child.cls \in {"note", "label"} THEN <<>>
           ELSE IF child.cls \in {"nd", "sc"} THEN toUpperCase(child.text)
           ELSE IF child.text = <<>> THEN <<>>
           ELSE <<" ">> \o child.text)
          \o SpanText(Tail(body))

RECURSIVE RunText(_)
RunText(run) ==
  IF run = <<>> THEN <<>> ELSE SpanText(hist[Head(run)].body) \o RunText(Tail(run))

\* the order of the verse a heading span at position k precedes: one more than
\* the number of verses begun before it
TargetVerse(k) == 1 + Cardinality({a \in 1..Len(RunStarts) : RunStarts[a] < k})

\* string comparison of two decimal strings, as JavaScript compares strings
RECURSIVE StrLeq(_, _)
StrLeq(s, t) ==
  IF s = <<>> THEN TRUE
  ELSE IF t = <<>> THEN FALSE
  ELSE IF Head(s) = Head(t) THEN StrLeq(Tail(s), Tail(t))
  ELSE DigitVal(Head(s)) < DigitVal(Head(t))

(***************************************************************************)
(* C1  Split-label verses.  Two consecutive verse spans with the same      *)
(* reference and different non-empty labels never share a record: once the *)
(* second is read, the first is in a pushed record of order n with the     *)
(* verse number of the reference, and the second is either still in the    *)
(* scratch verse that will be pushed at order n + 1, or in the next        *)
(* record, of order n + 1 and the same verse number.                       *)
(***************************************************************************)
SplitPair(p, q) ==
  /\ p < q
  /\ RefVerse(p)
  /\ RefVerse(q)
  /\ \A m \in (p + 1)..(q - 1) : ~RefVerse(m)
  /\ hist[p].usfm = hist[q].usfm
  /\ LabelOf(p) # <<>>
  /\ LabelOf(q) # <<>>
  /\ LabelOf(p) # LabelOf(q)

C2_LastVerseEmitted ==
  WalkReturned =>
    \A k \in 1..Len(hist) :
      RefVerse(k) =>
        \E a \in 1..Len(ChapterRecords) : k \in Range(ChapterRecords[a].fr)

(***************************************************************************)
(* C3  A chapter without verse spans pushes no record.                     *)
(***************************************************************************)
C3_NoVerseNoRecord ==
  (WalkReturned /\ \A k \in 1..Len(hist) : hist[k].cls # "verse")
    => ChapterRecords = <<>>

(***************************************************************************)
(* C4  The records of one chapter walk carry the orders 1, 2, .., n in     *)
(* push order.                                                             *)
(***************************************************************************)
C4_OrdersSequential ==
  \A a \in 1..Len(ChapterRecords) : ChapterRecords[a].o = a

(***************************************************************************)
(* C5  No two records of a book have the same id, and the ids are          *)
(* non-decreasing in push order.                                           *)
(***************************************************************************)
C5_IdsUniqueNonDecreasing ==
  \A a \in 1..Len(bookResult.verses), b \in 1..Len(bookResult.verses) :
    a < b =>
      /\ bookResult.verses[a].id # bookResult.verses[b].id
      /\ StrLeq(bookResult.verses[a].id, bookResult.verses[b].id)

(***************************************************************************)
(* C6  Headings attach to the verse that follows them.  As claimed: a      *)
(* heading span read before the first span of the chapter's k-th verse     *)
(* (and after the first span of the verse before it) is in the heading of  *)
(* the record of order k, and a record whose verse has no such heading     *)
(* has the heading "".                                                     *)
(***************************************************************************)
\* the heading spans read in the window of the verse of order k
HeadingsBefore(k) == {p \in 1..Len(hist) : HeadingAt(p) /\ TargetVerse(p) = k}

\* every heading of the window of order k is in a record of order k, once
\* one has been pushed
HeadingsReachTheirVerse ==
  \A p \in 1..Len(hist) :
    (/\ HeadingAt(p)
     /\ \E a \in 1..Len(ChapterRecords) : ChapterRecords[a].o = TargetVerse(p))
      => \E a \in 1..Len(ChapterRecords) :
           /\ ChapterRecords[a].o = TargetVerse(p)
           /\ p \in Range(ChapterRecords[a].hf)
           /\ ChapterRecords[a].h # <<>>

C6_HeadingPrecedesItsVerse ==
  /\ HeadingsReachTheirVerse
  /\ \A a \in 1..Len(ChapterRecords) :
       HeadingsBefore(ChapterRecords[a].o) = {} => ChapterRecords[a].h = <<>>

(***************************************************************************)
(* C6 as amended: the same, except that a record pushed by the             *)
(* end-of-chapter finalize whose verse has no preceding heading takes the  *)
(* heading pending for the next order, made of the heading spans read      *)
(* after that verse's first span.                                          *)
(***************************************************************************)
C6_HeadingPrecedesOrEndsChapter ==
  /\ HeadingsReachTheirVerse
  /\ \A a \in 1..Len(ChapterRecords) :
       LET r == ChapterRecords[a]
       IN HeadingsBefore(r.o) = {} =>
            \/ r.h = <<>>
            \/ /\ r.by = "finalizeVerse"
               /\ r.ht = r.o + 1
               /\ Range(r.hf) \subseteq HeadingsBefore(r.o + 1)

\* the scenario of the claim: a heading, then two verses; the first record
\* has the heading and the second has none
C6_Witness ==
  /\ WalkReturned
  /\ Len(ChapterRecords) = 2
  /\ HeadingsBefore(1) # {}
  /\ HeadingsBefore(2) = {}
  /\ ChapterRecords[1].by = "processVerse"
  /\ Range(ChapterRecords[1].hf) = HeadingsBefore(1)
  /\ ChapterRecords[1].h # <<>>
  /\ ChapterRecords[2].h = <<>>

(***************************************************************************)
(* C7  A pending heading is attached at its own target order, or one order *)
(* earlier by the either-check of finalizeVerse only; it leaves            *)
(* saveHeaders when it is attached, it is attached to one record at most,  *)
(* and no heading stays pending for an order that has been pushed.         *)
(***************************************************************************)
C7_HeadingAttachedOnce ==
  /\ \A a \in 1..Len(ChapterRecords) :
       LET r == ChapterRecords[a]
       IN r.hf # <<>> =>
            \/ r.ht = r.o
            \/ r.by = "finalizeVerse" /\ r.ht = r.o + 1
  /\ \A a \in 1..Len(ChapterRecords), b \in 1..Len(ChapterRecords) :
       a # b => Range(ChapterRecords[a].hf) \cap Range(ChapterRecords[b].hf) = {}
  /\ \A k \in 1..Len(saveHeaders), a \in 1..Len(ChapterRecords) :
       /\ Range(saveHeaders[k].src) \cap Range(ChapterRecords[a].hf) = {}
       /\ saveHeaders[k].target_order > ChapterRecords[a].o

\* a heading that was pending for order k has been attached by processVerse to
\* the record of order k and is gone from saveHeaders
C7_Witness ==
  \E a \in 1..Len(ChapterRecords) :
    /\ ChapterRecords[a].by = "processVerse"
    /\ ChapterRecords[a].hf # <<>>
    /\ ChapterRecords[a].ht = ChapterRecords[a].o
    /\ ChapterRecords[a].h # <<>>
    /\ \A k \in 1..Len(saveHeaders) :
         saveHeaders[k].target_order # ChapterRecords[a].ht

(***************************************************************************)
(* C8  The end-of-chapter finalize pushes at most one record per chapter,  *)
(* and no two records of a chapter have the same order.                    *)
(***************************************************************************)
C8_SingleEndOfChapterFinalize ==
  \A a \in 1..Len(ChapterRecords), b \in 1..Len(ChapterRecords) :
    a < b =>
      /\ ~(ChapterRecords[a].by = "finalizeVerse"
             /\ ChapterRecords[b].by = "finalizeVerse")
      /\ ChapterRecords[a].o # ChapterRecords[b].o

(***************************************************************************)
(* C9  When the last span of the chapter is a verse span with a reference, *)
(* the records are, one for one and in order, the runs of verse spans      *)
(* between boundaries, and the text of each is cleanText of the            *)
(* concatenated content of its run.                                        *)
(***************************************************************************)
C9_RecordsAreRuns ==
  (WalkReturned /\ hist # <<>> /\ RefVerse(Len(hist))) =>
    /\ Len(ChapterRecords) = Len(Runs)
    /\ \A a \in 1..Len(ChapterRecords) :
         a <= Len(Runs) =>
           /\ ChapterRecords[a].fr = Runs[a]
           /\ ChapterRecords[a].t = cleanText(RunText(Runs[a]))

(***************************************************************************)
(* C10  cleanText is idempotent, and its result has no whitespace at       *)
(* either end, no two whitespace characters in a row and no space before   *)
(* "." or ",".                                                             *)
(***************************************************************************)
C10_CleanTextIdempotent ==
  /\ Len(ct_out) >= 2 => ct_out[2] = ct_out[1]
  /\ Len(ct_out) >= 1 =>
       LET r == ct_out[1]
       IN /\ r # <<>> => (Head(r) \notin WhiteSpace /\ Last(r) \notin WhiteSpace)
          /\ \A k \in 1..(Len(r) - 1) :
               /\ ~(r[k] \in WhiteSpace /\ r[k + 1] \in WhiteSpace)
               /\ ~(r[k] \in WhiteSpace /\ r[k + 1] \in {".", ","})

\* a string that cleanText changes in each of its steps, cleaned twice
C10_Witness ==
  /\ Len(ct_out) = 2
  /\ ct_in # <<>>
  /\ Head(ct_in) \in WhiteSpace
  /\ Contains(ct_in, <<" ", ".">>)
  /\ \E k \in 1..(Len(ct_in) - 1) :
       ct_in[k] \in WhiteSpace /\ ct_in[k + 1] \in WhiteSpace
  /\ ct_out[1] # ct_in
  /\ ct_out[1] # <<>>


(***************************************************************************)
(* The workers of scrapeAllBooks.                                          *)
(***************************************************************************)
ClaimedIndexes == {claims[k].index : k \in 1..Len(claims)}

\* the tabs that have a book in progress
Busy == {w \in 1..Len(workers) : workers[w].pc # "finished"}

AllFinished ==
  /\ poolPc \in {"running", "saved"}
  /\ Busy = {}

CompletedBooks == {completed[k] : k \in 1..Len(completed)}

FailedNumbers == {f.book : f \in failedBooks}

\* C11: no index of booksToProcess is taken twice, no two tabs work on the
\* same book, and when all workers have finished every index has been taken.
C11_EveryIndexClaimedOnce ==
  /\ \A a, b \in 1..Len(claims) :
       a # b => claims[a].index # claims[b].index
  /\ \A v, w \in Busy :
       v # w => workers[v].currentBookIndex # workers[w].currentBookIndex
  /\ AllFinished => ClaimedIndexes = 0..(nBooks - 1)

\* the verses saveResults writes for a set of successful books
RECURSIVE Consolidated(_)
Consolidated(order) ==
  IF order = <<>> THEN <<>>
  ELSE BookVerses(Head(order)) \o Consolidated(Tail(order))

\* C12: the consolidated verse list is in ascending book number and is the
\* same for every order in which the same books completed.
C12_ConsolidatedInBookOrder ==
  poolPc = "saved" =>
    /\ \A k \in 1..(Len(finalResult) - 1) :
         finalResult[k].b <= finalResult[k + 1].b
    /\ finalResult = Consolidated(KeyOrder(CompletedBooks))

\* a book completed before a book of lower number, and the files are written
C12_Witness ==
  /\ poolPc = "saved"
  /\ \E k \in 1..(Len(completed) - 1) : completed[k] > completed[k + 1]

\* C13: a worker ends only when the queue is empty, also after its book
\* failed; and when a book has failed, every other book has been processed
\* and is in the consolidated list, to which the failed book adds nothing.
C13_FailedBookDoesNotStopPool ==
  /\ \A w \in 1..Len(workers) :
       workers[w].pc = "finished" => bookIndex >= nBooks
  /\ (poolPc = "saved" /\ failedBooks # {}) =>
       /\ CompletedBooks \cup FailedNumbers = 1..nBooks
       /\ CompletedBooks \cap FailedNumbers = {}
       /\ \A k \in 1..Len(finalResult) : finalResult[k].b \notin FailedNumbers
       /\ \A b \in CompletedBooks :
            \E k \in 1..Len(finalResult) : finalResult[k].b = b

\* a tab's book failed with the retry budget exhausted, the same tab took a
\* later book and completed it, and the files are written
C13_Witness ==
  /\ poolPc = "saved"
  /\ config.retryAttempts >= 2
  /\ \E a, b \in 1..Len(claims) :
       /\ a < b
       /\ claims[a].tab = claims[b].tab
       /\ [book |-> claims[a].index + 1, threw |-> "processBookWithRetry"]
            \in failedBooks
       /\ claims[b].index + 1 \in CompletedBooks

(***************************************************************************)
(* The chapter loop of processBook.                                        *)
(***************************************************************************)
\* the book code of a page URL's last segment
UrlBook(url) == SplitOn(url, ".")[1]

\* the records the parsed pages of chapter c pushed, over the pages of emitted
RECURSIVE EmittedFor(_, _)
EmittedFor(pagesEmitted, c) ==
  IF pagesEmitted = <<>> THEN 0
  ELSE (IF Head(pagesEmitted).c = c THEN Head(pagesEmitted).n ELSE 0)
         + EmittedFor(Tail(pagesEmitted), c)

\* C14: when the wait for the chapter container times out, that chapter is
\* skipped and the loop goes on to the next-chapter link: processBook does
\* not throw and processBookWithRetry does not start the book again.
C14_MissingContainerSkipsChapter ==
  /\ (opened # <<>> /\ Last(opened).outcome = "timeout") =>
       /\ bpc \in {"nav", "page", "returned"}
       /\ Len(bookResult.verses) = chapterBase
  /\ bpc \in {"start", "page", "walk", "nav", "thrown", "returned", "failed"} =>
       bookAttempt = 1

\* C15: when processBook has returned, cv_count.v holds, in chapter order,
\* one entry per chapter that pushed records, and the entry is the number of
\* records pushed for the chapter.
C15_CountsMatchRecords ==
  bpc = "returned" =>
    LET chapters == {emitted[k].c : k \in {m \in 1..Len(emitted) : emitted[m].n > 0}}
        keys == KeyOrder(chapters)
    IN bookResult.cv_count.v =
         [k \in 1..Len(keys) |-> EmittedFor(emitted, keys[k])]

\* C16: the loop opens and parses pages of its own book only: once the
\* next-chapter link has led to a page of another book, processBook has
\* returned.
C16_OtherBookNeverParsed ==
  /\ \A k \in 1..Len(opened) : UrlBook(opened[k].url) = bookUsfm
  /\ bpc \in {"page", "walk", "nav"} => UrlBook(lastPartOfUrl) = bookUsfm
  /\ (lastPartOfUrl # <<>> /\ UrlBook(lastPartOfUrl) # bookUsfm) =>
       bpc = "returned"

\* the link of a parsed chapter has led to another book and the book's
\* records are returned
C16_Witness ==
  /\ bpc = "returned"
  /\ lastPartOfUrl # <<>>
  /\ UrlBook(lastPartOfUrl) = OtherBook
  /\ \E k \in 1..Len(opened) : opened[k].outcome = "parsed"
  /\ bookResult.verses # <<>>

(***************************************************************************)
(* retryOperation.                                                         *)
(***************************************************************************)
\* invocations of operation so far: the settled ones and the awaited one
RetryInvocations == Len(r_log) + (IF r_pc = "await" THEN 1 ELSE 0)

\* C17: with maxRetries >= 1, operation is invoked at least once and at most
\* maxRetries times; the value of the first successful invocation is
\* returned and nothing is invoked after it; the error thrown is the error
\* of invocation number maxRetries, after maxRetries failures.
C17_RetryInvokesWithinBudget ==
  r_maxRetries >= 1 =>
    /\ RetryInvocations <= r_maxRetries
    /\ \A k \in 1..(Len(r_log) - 1) : r_log[k][1] = "err"
    /\ r_pc \in {"returned", "thrown"} => RetryInvocations >= 1
    /\ r_pc = "returned" =>
         /\ Last(r_log)[1] = "ok"
         /\ r_result = Last(r_log)
    /\ r_pc = "thrown" =>
         /\ Len(r_log) = r_maxRetries
         /\ \A k \in 1..Len(r_log) : r_log[k][1] = "err"
         /\ r_result = Last(r_log)
    /\ r_pc \in {"loop", "await", "delay"} =>
         \A k \in 1..Len(r_log) : r_log[k][1] = "err"

\* every attempt has failed, the last one with another error than the first
C17_Witness ==
  /\ r_pc = "thrown"
  /\ r_maxRetries >= 2
  /\ Len(r_log) >= 2
  /\ r_log[1] # Last(r_log)

(***************************************************************************)
(* The constructor.                                                        *)
(***************************************************************************)
\* C18: a scraper is constructed only with maxConcurrentTabs in 1..100 and
\* retryAttempts in 1..10: an integer outside the range is rejected, so a
\* constructed scraper has at least one tab and one retry attempt.
C18_ConstructedWithinLimits ==
  cfg_state = "constructed" =>
    /\ cfg_out.maxConcurrentTabs \in 1..100
    /\ cfg_out.retryAttempts \in 1..10

(***************************************************************************)
(* getVerseId and getNumberFromChapter.                                    *)
(***************************************************************************)
\* s sorts before t as a JavaScript string of digits
StrLess(s, t) == s # t /\ StrLeq(s, t)

\* (chapter, order) pair p comes before pair q
PairLess(p, q) == p[1] < q[1] \/ (p[1] = q[1] /\ p[2] < q[2])

SixDigits(s) == Len(s) = 6 /\ \A k \in 1..Len(s) : IsDigit(s[k])

\* id is the book's digits followed by six digits
WellFormedId(id, book) ==
  /\ IsPrefix(String(book), id)
  /\ SixDigits(SubSeq(id, Len(String(book)) + 1, Len(id)))

\* C19: for chapter and order in 1..999 an id is the book's digits followed
\* by exactly six digits; two ids of one book compare as strings the way
\* their (chapter, order) pairs compare as numbers, and are equal only for
\* equal pairs.
C19_IdsOrderLikePairs ==
  id_out # <<>> =>
    /\ WellFormedId(id_out[1], id_book)
    /\ WellFormedId(id_out[2], id_book)
    /\ StrLess(id_out[1], id_out[2]) <=> PairLess(id_a, id_b)
    /\ id_out[1] = id_out[2] <=> id_a = id_b

\* chapter 2 order 10 against chapter 10 order 2: without the padding the
\* strings would sort the other way
C19_Witness ==
  /\ id_out # <<>>
  /\ id_a = <<2, 10>>
  /\ id_b = <<10, 2>>
  /\ StrLess(id_out[1], id_out[2])

\* the digits of token before its underscore, all of it when it has none
TokenHead(token) == SplitOn(token, "_")[1]

\* C20: getNumberFromChapter gives the number before the underscore of a
\* compound token and the number itself for a plain token.
C20_ChapterNumberOfToken ==
  gn_out # <<>> => gn_out[1] = DigitsValue(TokenHead(gn_in), 0)

\* "23_1" has given 23
C20_Witness ==
  /\ gn_in = <<"2", "3", "_", "1">>
  /\ gn_out = <<23>>

(***************************************************************************)
(* The expected chapter count of processBook.                              *)
(***************************************************************************)
\* C21: the expected chapter count only affects warnings: when processBook
\* returns, every page of the book the tab has arrived at has been opened
\* by the loop, so the records are those of all the reachable chapter pages
\* whatever the expected count is.
C21_ExpectedCountOnlyWarns ==
  (/\ bpc = "returned"
   /\ lastPartOfUrl # <<>>
   /\ UrlBook(lastPartOfUrl) = bookUsfm) =>
    /\ opened # <<>>
    /\ Last(opened).url = lastPartOfUrl

(***************************************************************************)
(* The books in progress in scrapeAllBooks.                                *)
(***************************************************************************)
\* the books tab w has taken from the queue
TakenBy(w) ==
  {claims[k].index + 1 : k \in {m \in 1..Len(claims) : claims[m].tab = w}}

\* the books taken from the queue that have neither completed nor failed
InProgress ==
  {claims[k].index + 1 : k \in 1..Len(claims)}
    \ (CompletedBooks \cup FailedNumbers)

\* C22: at every moment the number of books in progress is at most
\* min(maxConcurrentTabs, number of books to process), and each tab has at
\* most one book in progress.
C22_InProgressWithinPool ==
  /\ Cardinality(InProgress) <= config.maxConcurrentTabs
  /\ Cardinality(InProgress) <= nBooks
  /\ \A w \in 1..Len(workers) : Cardinality(TakenBy(w) \cap InProgress) <= 1
  /\ \A k \in 1..Len(claims) : claims[k].tab \in 1..Len(workers)

\* more books than tabs: every tab has a book in progress, one of them its
\* second book
C22_Witness ==
  /\ poolPc = "running"
  /\ nBooks > config.maxConcurrentTabs
  /\ config.maxConcurrentTabs >= 2
  /\ Cardinality(InProgress) = config.maxConcurrentTabs
  /\ \E w \in 1..Len(workers) : Cardinality(TakenBy(w)) >= 2

(***************************************************************************)
(* The heading the end-of-chapter finalize attaches.                       *)
(***************************************************************************)
\* a heading is pending for target order n
PendingFor(headers, n) ==
  \E k \in 1..Len(headers) : headers[k].target_order = n

\* the step pushes a record through finalizeVerse
FinalizePushes ==
  /\ Len(bookResult.verses') > Len(bookResult.verses)
  /\ Last(bookResult.verses').by = "finalizeVerse"

\* C23: when the end-of-chapter finalize pushes the record of order n and a
\* heading is pending for n, that heading is the one attached, also when
\* another is pending for n + 1; the heading pending for n + 1 is attached
\* only when none is pending for n.
C23_FinalizePrefersOwnOrder ==
  [][FinalizePushes =>
       LET record == Last(bookResult.verses')
           n == record.o
       IN /\ PendingFor(saveHeaders, n) =>
               /\ record.ht = n
               /\ record.h =
                    Trim(saveHeaders[FindHeader(saveHeaders, {n})].text)
          /\ record.ht = n + 1 =>
               /\ ~PendingFor(saveHeaders, n)
               /\ PendingFor(saveHeaders, n + 1)
          /\ record.ht \in {0, n, n + 1}
          /\ (record.ht = 0) =>
               ~(PendingFor(saveHeaders, n) \/ PendingFor(saveHeaders, n + 1))
    ]_vars

\* the finalize has attached the heading pending for its order n while the
\* one for n + 1 stays pending
C23_Witness ==
  /\ bookResult.verses # <<>>
  /\ Len(bookResult.verses) > chapterBase
  /\ Last(bookResult.verses).by = "finalizeVerse"
  /\ Last(bookResult.verses).ht = Last(bookResult.verses).o
  /\ PendingFor(saveHeaders, Last(bookResult.verses).o + 1)

(***************************************************************************)
(* The separator between the headings of two heading containers.           *)
(***************************************************************************)
\* the positions of text that hold a character of a heading span
TextPositions(text) == {p \in 1..Len(text) : text[p] # "\n"}

\* the position in text of the character of its k-th heading span (every
\* heading span with text has one character)
NthTextPosition(text, k) ==
  CHOOSE p \in TextPositions(text) :
    Cardinality({q \in TextPositions(text) : q <= p}) = k

\* span a of the chapter lies in a top-level heading container
InHeadingContainer(a) == isHeadingTopContainer(groupTypes[hist[a].g + 1])

\* in text, made of the heading spans src, a newline lies between any two
\* successive spans that come from two different heading containers
GroupsSeparated(text, src) ==
  \A k \in 1..(Len(src) - 1) :
    (/\ hist[src[k]].g # hist[src[k + 1]].g
     /\ InHeadingContainer(src[k])
     /\ InHeadingContainer(src[k + 1])) =>
      \E p \in NthTextPosition(text, k)..NthTextPosition(text, k + 1) :
        text[p] = "\n"

\* C24: whenever heading spans of two different top-level heading containers
\* are merged into the same pending HeaderItem, a newline lies between the
\* text of the first and the text of the second, and so it does in the
\* heading attached to a record.
C24_HeadingGroupsSeparated ==
  /\ \A k \in 1..Len(saveHeaders) :
       GroupsSeparated(saveHeaders[k].text, saveHeaders[k].src)
  /\ \A k \in 1..Len(ChapterRecords) :
       GroupsSeparated(ChapterRecords[k].h, ChapterRecords[k].hf)

(***************************************************************************)
(* A failed next-chapter navigation.                                       *)
(***************************************************************************)
\* the number of records the parsed pages pushed
RECURSIVE EmittedTotal(_)
EmittedTotal(pagesEmitted) ==
  IF pagesEmitted = <<>> THEN 0
  ELSE Head(pagesEmitted).n + EmittedTotal(Tail(pagesEmitted))

\* the values of cv_v_key in the order of its keys
CountsOf(key) ==
  LET keys == KeyOrder(DOMAIN key) IN [k \in 1..Len(keys) |-> key[keys[k]]]

\* C25: when the next-chapter navigation has thrown, the chapter loop is
\* over and processBook has returned without an error and without a new
\* attempt; cv_count is built from cv_v_key for the chapter the loop was on,
\* and the records returned are those the parsed pages pushed.
C25_FailedNavigationCompletesBook ==
  (opened # <<>> /\ Last(opened).nav = "throws") =>
    /\ bpc = "returned"
    /\ bookResult.cv_count =
         [c |-> currentChapter, v |-> CountsOf(bookResult.cv_v_key)]
    /\ Len(bookResult.verses) = EmittedTotal(emitted)
    /\ UrlBook(lastPartOfUrl) = bookUsfm

\* the navigation from the second page of a book has thrown after a chapter
\* pushed a record
C25_Witness ==
  /\ bpc = "returned"
  /\ Len(opened) >= 2
  /\ Last(opened).nav = "throws"
  /\ bookResult.verses # <<>>
  /\ bookResult.cv_count.v # <<>>

(***************************************************************************)
(* References joined with "+".                                             *)
(***************************************************************************)
\* the reference of the spans accumulated into a record
ReferenceOf(record) == hist[record.fr[1]].usfm

Combined(usfm) == Contains(usfm, <<"+">>)

\* [book, chapter, verse] of the first sub-reference of a reference
FirstSubReference(usfm) == SplitOn(SplitOn(usfm, "+")[1], ".")

\* verse spans p and q with the same reference follow each other and belong
\* to the same verse
SameVerse(p, q) ==
  /\ p < q
  /\ RefVerse(p)
  /\ RefVerse(q)
  /\ \A m \in (p + 1)..(q - 1) : ~RefVerse(m)
  /\ hist[p].usfm = hist[q].usfm
  /\ (LabelOf(q) = <<>> \/ LabelOf(q) = LabelOf(p))

\* C26: a record made of spans whose reference joins sub-references with "+"
\* has the chapter and the verse number of the first sub-reference; its text
\* is the content of all the spans accumulated under the reference, and two
\* successive spans with the same combined reference end in the same record.
C26_CombinedReferenceFirstPair ==
  /\ \A k \in 1..Len(ChapterRecords) :
       LET record == ChapterRecords[k]
       IN (record.fr # <<>> /\ Combined(ReferenceOf(record))) =>
            /\ record.c = Number(FirstSubReference(ReferenceOf(record))[2])
            /\ record.v = Number(FirstSubReference(ReferenceOf(record))[3])
            /\ \A a \in 1..Len(record.fr) :
                 hist[record.fr[a]].usfm = ReferenceOf(record)
            /\ record.t = cleanText(RunText(record.fr))
  /\ \A p, q \in 1..Len(hist) :
       (SameVerse(p, q) /\ Combined(hist[p].usfm)) =>
         \/ p \in Range(resultVerse.fr) /\ q \in Range(resultVerse.fr)
         \/ \E k \in 1..Len(ChapterRecords) :
              p \in Range(ChapterRecords[k].fr) /\ q \in Range(ChapterRecords[k].fr)

\* a record of two spans with the reference B.3.2+B.3.3 has been pushed for
\* chapter 3, verse 2
C26_Witness ==
  \E k \in 1..Len(ChapterRecords) :
    /\ Len(ChapterRecords[k].fr) >= 2
    /\ ReferenceOf(ChapterRecords[k]) = CombinedUsfm
    /\ ChapterRecords[k].c = 3
    /\ ChapterRecords[k].v = 2
    /\ ChapterRecords[k].t # <<>>

(***************************************************************************)
(* A verse span without a reference.                                       *)
(***************************************************************************)
\* the step reads a verse span that has no data-usfm
ReadsUnreferencedVerse ==
  /\ Len(hist') = Len(hist) + 1
  /\ Last(hist').cls = "verse"
  /\ Last(hist').usfm = <<>>

\* the span read is the last span of the last group, after which
\* processChapterContent finalizes the chapter
AtLastSpan == i = nGroups - 1 /\ j = nSpans - 1

\* C27: a verse span without a reference leaves the assembler as it was: the
\* order and header counters, the last reference and the last label are
\* unchanged, processVerse pushes no record, the scratch verse (chapter,
\* verse number, text, heading) and the pending headings are unchanged, and
\* the walk goes on to the next span; when the span is the last of the
\* chapter, the end-of-chapter finalize pushes the scratch verse as it was
\* before the span.
C27_UnreferencedVerseIgnored ==
  [][ReadsUnreferencedVerse =>
       /\ UNCHANGED <<lastVerseUsfm, lastVerseLabel, chapterVerseOrderCounter,
                      headerOrderCounter>>
       /\ j' = j + 1
       /\ pc' = "span"
       /\ \A k \in (Len(bookResult.verses) + 1)..Len(bookResult.verses') :
            bookResult.verses'[k].by # "processVerse"
       /\ IF AtLastSpan
            THEN /\ Len(bookResult.verses') = Len(bookResult.verses) + 1
                 /\ LET record == Last(bookResult.verses')
                    IN /\ record.c = resultVerse.c
                       /\ record.v = resultVerse.v
                       /\ record.l = resultVerse.l
                       /\ record.t = cleanText(resultVerse.t)
                       /\ record.fr = resultVerse.fr
            ELSE UNCHANGED <<resultVerse, saveHeaders, bookResult>>
    ]_vars

\* a span without a reference has been read in the middle of a verse whose
\* text is being accumulated, with a heading pending, and the walk is at the
\* next span
C27_Witness ==
  /\ pc = "span"
  /\ saveHeaders # <<>>
  /\ Len(hist) >= 2
  /\ Last(hist).cls = "verse"
  /\ Last(hist).usfm = <<>>
  /\ j < nSpans
  /\ resultVerse.t # <<>>
  /\ lastVerseUsfm # <<>>

(***************************************************************************)
(* The label of a record.                                                  *)
(***************************************************************************)
\* the last label with text among children, or label when there is none
RECURSIVE LastLabelIn(_, _)
LastLabelIn(body, label) ==
  IF body = <<>> THEN label
  ELSE LastLabelIn(Tail(body),
                   IF Head(body).cls = "label" /\ Head(body).text # <<>>
                     THEN Head(body).text
                     ELSE label)

\* the last label seen among the spans a record was accumulated from, the
\* empty string when none of them carries a label
RECURSIVE LastLabelAmong(_, _)
LastLabelAmong(spans, label) ==
  IF spans = <<>> THEN label
  ELSE LastLabelAmong(Tail(spans), LastLabelIn(hist[Head(spans)].body, label))

\* C28: the label of every pushed record is the last label seen among the
\* spans accumulated into its verse, and is empty when none of them carries
\* a label: the label of an earlier verse is never on a later record.
C28_LabelIsOfOwnVerse ==
  \A k \in 1..Len(ChapterRecords) :
    ChapterRecords[k].fr # <<>> =>
      ChapterRecords[k].l = LastLabelAmong(ChapterRecords[k].fr, <<>>)

(***************************************************************************)
(* The text of a record.                                                   *)
(***************************************************************************)
\* the characters of the note and label children of a verse span
HiddenCharsOf(body) ==
  UNION {Range(body[m].text) :
           m \in {x \in 1..Len(body) : body[x].cls \in {"note", "label"}}}

\* the characters of the note and label children of the spans
HiddenChars(spans) ==
  UNION {HiddenCharsOf(hist[spans[a]].body) : a \in 1..Len(spans)}

\* C29: the text accumulated for a verse is, child by child in document
\* order, nothing for a note or a label, the upper-cased content with no
\* space added for nd and sc, and one space followed by the content for
\* every other category; the text of a pushed record is cleanText of it and
\* holds no character of a note or a label.
C29_TextOfContentChildren ==
  /\ resultVerse.t = RunText(resultVerse.fr)
  /\ \A k \in 1..Len(ChapterRecords) :
       LET record == ChapterRecords[k]
       IN /\ record.t = cleanText(RunText(record.fr))
          /\ Range(record.t) \cap HiddenChars(record.fr) = {}

\* a record of a verse with label, note, nd, sc and plain children has been
\* pushed with the text "cB wA"
C29_Witness ==
  \E k \in 1..Len(ChapterRecords) :
    /\ ChapterRecords[k].fr # <<>>
    /\ hist[ChapterRecords[k].fr[1]].body = MixedBody
    /\ ChapterRecords[k].t = <<"c", "B", " ", "w", "A">>

(***************************************************************************)
(* The heading-container markers.                                          *)
(***************************************************************************)
\* the markers that may be followed by digits, and those that may not
MarkersWithDigits ==
  {<<"m", "t">>, <<"m", "t", "e">>, <<"m", "s">>, <<"s">>, <<"s", "d">>}
MarkersAlone == {<<"m", "r">>, <<"s", "r">>, <<"r">>, <<"d">>, <<"s", "p">>}

IsMarker(class) ==
  \/ class \in MarkersAlone
  \/ \E marker \in MarkersWithDigits :
       /\ IsPrefix(marker, class)
       /\ \A k \in (Len(marker) + 1)..Len(class) : IsDigit(class[k])

\* C30: isHeadingTopContainer returns true exactly for the ten heading
\* container markers (mt, mte, ms, s and sd with or without digits after
\* them, mr, sr, r, d and sp) and false for every other class of a top-level
\* group, such as p, q1, pr, li or table.
C30_TrueExactlyForMarkers ==
  hc_out # <<>> => (hc_out[1] <=> IsMarker(hc_in))

(***************************************************************************)
(* The waits of retryOperation.                                            *)
(***************************************************************************)
\* C31: the waits between consecutive failed attempts of retryOperation
\* grow exponentially, each wait being at least twice the one before it,
\* and every wait is bounded by the base delay times maxRetries.
C31_WaitsGrowExponentially ==
  /\ \A k \in 2..Len(r_waits) : r_waits[k] >= 2 * r_waits[k - 1]
  /\ \A k \in 1..Len(r_waits) : r_waits[k] <= r_delay * r_maxRetries

(***************************************************************************)
(* The records already pushed.                                             *)
(***************************************************************************)
\* C32: a record appended to bookResult.verses never changes afterwards:
\* every step of the chapter walk (a later fragment, a later push, the reset
\* of the scratch verse) leaves the records pushed so far as they were and
\* in their places.
C32_PushedRecordsFrozen ==
  [][IsPrefix(bookResult.verses, bookResult.verses')]_vars

\* two records have been pushed, one by processVerse and one by
\* finalizeVerse, the scratch verse has been reset after them, and the
\* first record still holds the text it was pushed with
C32_Witness ==
  /\ Len(bookResult.verses) >= 2
  /\ \E a, b \in 1..Len(bookResult.verses) :
       /\ a < b
       /\ bookResult.verses[a].by = "processVerse"
       /\ bookResult.verses[b].by = "finalizeVerse"
       /\ bookResult.verses[a].t # <<>>
       /\ bookResult.verses[a].t # bookResult.verses[b].t
  /\ resultVerse.t = <<>>

(***************************************************************************)
(* The locals of processChapterContent from one chapter to the next.       *)
(***************************************************************************)
\* processChapterContent has set up its locals and has read no group yet
ChapterBegun == chapterIdx > 0 /\ groupTypes = <<>>

\* the spans of the current chapter a heading text was collected from are
\* heading spans of this chapter
OfThisChapter(src) ==
  \A k \in 1..Len(src) :
    /\ src[k] \in 1..Len(hist)
    /\ hist[src[k]].cls \in {"heading", "nd"}

\* C33: nothing of the assembler state carries over between the chapters of
\* a book: when a chapter walk begins the pending-heading buffer is empty,
\* the last reference and the last label are empty, both order counters are
\* 0 and the scratch verse is new; a heading pending at the end of a chapter
\* is dropped, so every heading pending or attached in a chapter was read in
\* that chapter.
C33_ChapterStateNotCarried ==
  /\ ChapterBegun =>
       /\ saveHeaders = <<>>
       /\ lastVerseUsfm = <<>>
       /\ lastVerseLabel = <<>>
       /\ chapterVerseOrderCounter = 0
       /\ headerOrderCounter = 0
       /\ resultVerse = NewVerse(bookNumber)
  /\ \A k \in 1..Len(saveHeaders) : OfThisChapter(saveHeaders[k].src)
  /\ \A k \in 1..Len(ChapterRecords) :
       /\ OfThisChapter(ChapterRecords[k].hf)
       /\ ChapterRecords[k].hf = <<>> => ChapterRecords[k].h = <<>>

\* the first chapter ended with a heading still pending, and the first record
\* of the second chapter has been pushed without a heading
C33_Witness ==
  /\ chapterIdx = 2
  /\ dropped # <<>>
  /\ dropped[1].text # <<>>
  /\ ChapterRecords # <<>>
  /\ ChapterRecords[1].fr # <<>>
  /\ ChapterRecords[1].h = <<>>

(***************************************************************************)
(* The chunked implementation and a book that fails.                       *)
(***************************************************************************)
\* C34: in the chunked implementation an error raised while one book is
\* processed does not stop the other books: when main has finished, the file
\* of every book whose processBook did not throw has been written, and so
\* have the consolidated outputs that hold its result.
C34_ChunkErrorIsolated ==
  ck_pc = "done" =>
    \A b \in 1..ck_n :
      ck_promise[b] # "rejected" => b \in Range(ck_files) /\ ck_final

(***************************************************************************)
(* The chapter counts when processBook returns.                            *)
(***************************************************************************)
\* C35: whenever processBook has returned normally with the record of a
\* verse in bookResult.verses, by whichever exit of its chapter loop,
\* cv_count has been built from cv_v_key for the chapter the loop ended on:
\* it is not left at its initial value.
C35_CountsFinalizedOnReturn ==
  (/\ bpc = "returned"
   /\ \E k \in 1..Len(bookResult.verses) : bookResult.verses[k].fr # <<>>) =>
    /\ bookResult.cv_count # NewBookResult.cv_count
    /\ bookResult.cv_count =
         [c |-> currentChapter, v |-> CountsOf(bookResult.cv_v_key)]

(***************************************************************************)
(* The result of a book that was retried.                                  *)
(***************************************************************************)
\* the records pushed for the pages before page k of this attempt
EmittedBefore(k) == EmittedTotal(SubSeq(emitted, 1, k - 1))

\* C37: when processBook is retried after it failed part-way, the result
\* finally returned holds only what the successful attempt produced: its
\* records are, page by page in the order the attempt parsed its pages, the
\* records pushed for that page, no page was parsed twice, and cv_v_key has
\* chapters of these pages only; nothing pushed by a failed attempt is in it.
C37_RetriedResultOfLastAttempt ==
  (bpc = "returned" /\ bookAttempt > 1) =>
    /\ Len(bookResult.verses) = EmittedTotal(emitted)
    /\ \A k \in 1..Len(emitted) :
         \A n \in 1..emitted[k].n :
           /\ bookResult.verses[EmittedBefore(k) + n].o = n
           /\ bookResult.verses[EmittedBefore(k) + n].c = emitted[k].c
    /\ \A a, b \in 1..Len(opened) : a # b => opened[a].url # opened[b].url
    /\ DOMAIN bookResult.cv_v_key \subseteq {emitted[k].c : k \in 1..Len(emitted)}

\* a first attempt pushed records and then threw, and the second attempt has
\* returned a result with records
C37_Witness ==
  /\ bpc = "returned"
  /\ bookAttempt = 2
  /\ discarded > 0
  /\ bookResult.verses # <<>>
  /\ bookResult.verses[1].fr # <<>>

(***************************************************************************)
(* The consolidated outputs.                                               *)
(***************************************************************************)
\* the books whose processBookWithRetry and saveIndividualBookResult both
\* returned
SavedBooks ==
  {claims[k].index + 1 : k \in 1..Len(claims)}
    \ ({claims[k].index + 1 :
          k \in {x \in 1..Len(claims) :
                   workers[claims[x].tab].pc \in {"process", "save", "catch"}
                     /\ workers[claims[x].tab].currentBookIndex
                          = claims[x].index}}
       \cup FailedNumbers)

\* the number of times the result of book b is in the consolidated verses
TimesIn(b) ==
  Cardinality({k \in 1..Len(finalResult) :
                 finalResult[k].b = b /\ finalResult[k].o = 1})

\* the consolidated outputs hold each saved book once and no other book
OutputsOfSavedBooks ==
  /\ \A b \in 1..nBooks : TimesIn(b) = IF b \in SavedBooks THEN 1 ELSE 0
  /\ DOMAIN cvCount = SavedBooks
  /\ \A k \in 1..Len(finalResult) : finalResult[k].b \notin FailedNumbers

\* saveResults writes the outputs in this step
Written == poolPc # "saved" /\ poolPc' = "saved"

\* C38: saveResults writes the consolidated outputs once, and only after
\* every worker has finished; what it writes holds the result of each book
\* whose processing and individual save succeeded exactly once and of no
\* failed book, and the outputs do not change afterwards.
C38_ConsolidatedWrittenOnce ==
  [][/\ Written =>
          /\ \A w \in 1..Len(workers) : workers[w].pc = "finished"
          /\ OutputsOfSavedBooks'
     /\ ~Written => UNCHANGED <<finalResult, cvCount>>
     /\ poolPc = "saved" => poolPc' = "saved"]_vars

\* the outputs have been written after two tabs worked through three books:
\* one failed in processing, one in its individual save, one was saved
C38_Witness ==
  /\ poolPc = "saved"
  /\ Len(workers) = 2
  /\ \E f \in failedBooks : f.threw = "processBookWithRetry"
  /\ \E f \in failedBooks : f.threw = "saveIndividualBookResult"
  /\ SavedBooks # {}
  /\ finalResult # <<>>

(***************************************************************************)
(* The order counters and the pending headings.                            *)
(***************************************************************************)
\* C36: throughout a chapter walk headerOrderCounter is
\* chapterVerseOrderCounter before the first verse fragment with a reference
\* and chapterVerseOrderCounter + 1 after it; saveHeaders has at most one
\* item per target order, in ascending target order, and every item targets
\* chapterVerseOrderCounter + 1 or chapterVerseOrderCounter + 2, so that at
\* most two headings are pending.
C36_CountersAndPendingHeadings ==
  /\ headerOrderCounter =
       IF lastVerseUsfm = <<>> THEN chapterVerseOrderCounter
       ELSE chapterVerseOrderCounter + 1
  /\ \A a, b \in 1..Len(saveHeaders) :
       a < b => saveHeaders[a].target_order < saveHeaders[b].target_order
  /\ \A k \in 1..Len(saveHeaders) :
       saveHeaders[k].target_order \in
         {chapterVerseOrderCounter + 1, chapterVerseOrderCounter + 2}
  /\ Len(saveHeaders) <= 2

\* after the second verse of a chapter has begun, two headings are pending:
\* one for the verse being accumulated and one for the verse after it
C36_Witness ==
  /\ chapterVerseOrderCounter >= 1
  /\ headerOrderCounter = chapterVerseOrderCounter + 1
  /\ Len(saveHeaders) = 2
  /\ saveHeaders[1].target_order = chapterVerseOrderCounter + 1
  /\ saveHeaders[2].target_order = chapterVerseOrderCounter + 2

\* C39, second half: with a positive expectedChapterCount, the chapters
\* parsed, the one being parsed included, are never more than
\* expectedChapterCount.
C39_ParsesAtMostExpected ==
  expectedChapterCount > 0 =>
    chaptersProcessed + (IF bpc = "walk" THEN 1 ELSE 0) <= expectedChapterCount

\* C39, first half: the chapter loop, once at a page, comes to its end: the
\* call returns or throws.
C39_LoopEnds == (bpc = "page") ~> (bpc \in {"returned", "thrown"})

\* C39: with a positive expectedChapterCount the chapter loop of processBook
\* eventually ends even when the next-chapter links form a cycle inside the
\* book, and it never parses more than expectedChapterCount chapters.
C39_CyclicBookEnds == C39_LoopEnds /\ []C39_ParsesAtMostExpected

\* C40: gracefulShutdown closes the pages and the browser at most once:
\* close() is called at most once on every page and at most once on the
\* browser, and of all the invocations at most one gets past the test of
\* isShuttingDown; the others return without a close.
C40_ClosesAtMostOnce ==
  /\ \A k \in 1..Len(sd_pageCloses) : sd_pageCloses[k] <= 1
  /\ sd_browserCloses <= 1
  /\ \A a, b \in 1..Len(sd_calls) :
       (sd_calls[a].at # "returned" /\ sd_calls[b].at # "returned") => a = b

C40_Witness ==
  /\ Len(sd_calls) >= 2
  /\ sd_calls[1].at = "browser"
  /\ sd_calls[2].at = "returned"
  /\ Len(sd_pages) >= 2
  /\ \A k \in 1..Len(sd_pages) : sd_pageCloses[k] = 1
  /\ sd_browserCloses = 1

====
